---- MODULE Spec2Model ----
(***************************************************************************)
(* Model of cfg-toy: the query comparator, the evaluation run and the      *)
(* metrics of the evaluation harness (src/evaluation/evaluator.py) and the *)
(* response interpretation of the query generator                          *)
(* (src/cfg/query_generator.py).                                           *)
(*                                                                         *)
(* A Python str is a sequence of one-character strings; None is the        *)
(* one-element sequence None, which no str equals.                         *)
(***************************************************************************)
EXTENDS Integers, Sequences, FiniteSets, TLC

VARIABLES
    cmp_pc,        \* "idle" | "ready" | "done": position of a compare_queries call
    generated,     \* compare_queries argument `generated` (a str or None)
    expected,      \* compare_queries argument `expected`
    is_correct,    \* value returned by compare_queries (FALSE before the call)
    norm_pc,       \* "idle" | "ready" | "done": position of a normalize call
    query,         \* normalize argument `query` (a str or None)
    normalized,    \* normalize(query)
    renormalized,  \* normalize(normalize(query))
    gen_pc,        \* "idle" | "start" | "waiting" | "done": position of a generate_query call
    api_calls,     \* number of requests this call has sent to the generation service
    response,      \* response.output as received
    api_error,     \* the message of the exception the service raised, or NoError
    gen_result,    \* what generate_query returned or raised
    ev_pc,         \* position of a run_evaluation call: "idle" | "start" | "generate" |
                   \* "callback" | "error_callback" | "metrics" | "returned" | "raised"
    client_present,        \* self.query_generator.client is not None
    progress_callback,     \* the progress_callback argument, or NoCallback
    latency,               \* milliseconds a generation call of this run takes to return
    ev_i,                  \* position in TEST_CASES of the case being processed
    results,               \* the local list `results`
    total_execution_time,  \* the local accumulator of line 80
    outcomes,      \* what the generation call did for each case so far
    timeline,      \* generation calls, callback invocations and emitted stream
                   \* events, in the order they happened
    report,        \* the dict run_evaluation returned
    escaped,       \* str(e) of the exception that left run_evaluation, or NoError
    met_pc,        \* "idle" | "ready" | "done": position of a calculate_metrics call
    met_results,   \* calculate_metrics argument `results`
    met_time,      \* calculate_metrics argument `total_execution_time`
    met_report,    \* the dict calculate_metrics returned
    stream_pc,     \* position of the /evaluate-stream generator: "idle" | "begin" |
                   \* "running" | "done"
    sent,          \* number of collected progress updates already yielded
    svc_pc,        \* position of the service request being handled
    svc_calls,     \* number of ClickHouseClient methods called so far
    request,       \* the request being handled
    reply,         \* what the endpoint or the method answered
    config,        \* the class attributes of Config
    config_file,   \* the content of app_config.json, or NoFile
    qg_api_key,    \* the key the QueryGenerator's client was built with
    db,            \* the ClickHouseClient: its handle, and every connection and
                   \* query made through clickhouse_connect
    before,        \* config, config_file, qg_api_key and db when the request arrived
    gr_pc,         \* position of the text submitted to the grammar
    sentence,      \* the text
    derivable      \* whether the start rule derives the text

cmpVars == <<cmp_pc, generated, expected, is_correct>>
normVars == <<norm_pc, query, normalized, renormalized>>
genVars == <<gen_pc, api_calls, response, api_error, gen_result>>
evalVars == <<ev_pc, client_present, progress_callback, latency, ev_i, results,
              total_execution_time, outcomes, timeline, report, escaped>>
metVars == <<met_pc, met_results, met_time, met_report>>
streamVars == <<stream_pc, sent>>
svcVars == <<svc_pc, svc_calls, request, reply, config, config_file, qg_api_key, db, before>>
grammarVars == <<gr_pc, sentence, derivable>>
vars == <<cmpVars, normVars, genVars, evalVars, metVars, streamVars, svcVars, grammarVars>>

\* what each operation leaves alone
notCmpVars == <<normVars, genVars, evalVars, metVars, streamVars, svcVars, grammarVars>>
notNormVars == <<cmpVars, genVars, evalVars, metVars, streamVars, svcVars, grammarVars>>
notGenVars == <<cmpVars, normVars, evalVars, metVars, streamVars, svcVars, grammarVars>>
notEvalVars == <<cmpVars, normVars, genVars, metVars, streamVars, svcVars, grammarVars>>
notMetVars == <<cmpVars, normVars, genVars, evalVars, streamVars, svcVars, grammarVars>>
notStreamEvalVars == <<cmpVars, normVars, genVars, metVars, svcVars, grammarVars>>
notSvcVars == <<cmpVars, normVars, genVars, evalVars, metVars, streamVars, grammarVars>>
notGrammarVars == <<cmpVars, normVars, genVars, evalVars, metVars, streamVars, svcVars>>

(***************************************************************************)
(* Python values                                                           *)
(***************************************************************************)
None == <<"<None>">>

EmptyStr == <<>>

\* str.strip() and str.split() treat these as whitespace (the ASCII ones that
\* the model's alphabets contain)
Whitespace == {" ", "\t", "\n"}

UpperChars ==
    <<"A","B","C","D","E","F","G","H","I","J","K","L","M","N","O","P","Q","R","S","T","U",
      "V","W","X","Y","Z">>

LowerChars ==
    <<"a","b","c","d","e","f","g","h","i","j","k","l","m","n","o","p","q","r","s","t","u",
      "v","w","x","y","z">>

\* str.lower() on one character
LowerChar(c) ==
    IF \E i \in 1..Len(UpperChars) : UpperChars[i] = c
    THEN LowerChars[CHOOSE i \in 1..Len(UpperChars) : UpperChars[i] = c]
    ELSE c

\* str.lower()
Lower(s) == [i \in 1..Len(s) |-> LowerChar(s[i])]

\* str.replace(c, "") for a one-character c
Remove(s, c) == SelectSeq(s, LAMBDA x : x # c)

\* str.strip(): drop leading and trailing whitespace
Strip(s) ==
    IF \A i \in 1..Len(s) : s[i] \in Whitespace
    THEN EmptyStr
    ELSE LET first == CHOOSE i \in 1..Len(s) :
                          s[i] \notin Whitespace /\ \A j \in 1..(i - 1) : s[j] \in Whitespace
             last == CHOOSE i \in 1..Len(s) :
                          s[i] \notin Whitespace /\ \A j \in (i + 1)..Len(s) : s[j] \in Whitespace
         IN  SubSeq(s, first, last)

\* set(str.split()): the maximal runs of non-whitespace characters
SplitSet(s) ==
    { SubSeq(s, i, j) : <<i, j>> \in
        { p \in (1..Len(s)) \X (1..Len(s)) :
            /\ p[1] <= p[2]
            /\ \A k \in p[1]..p[2] : s[k] \notin Whitespace
            /\ (p[1] = 1 \/ s[p[1] - 1] \in Whitespace)
            /\ (p[2] = Len(s) \/ s[p[2] + 1] \in Whitespace) } }

\* All strings over alphabet of length at most n
StringsUpTo(alphabet, n) == UNION { [1..k -> alphabet] : k \in 0..n }

ExactExpected ==
    <<"S","E","L","E","C","T"," ","C","O","U","N","T","(","*",")"," ","F","R","O","M"," ",
      "o","r","d","e","r","s",";">>

ExactGenerated ==
    <<"s","e","l","e","c","t"," ","c","o","u","n","t","(","*",")"," ","f","r","o","m"," ",
      "o","r","d","e","r","s"," ",";">>

JaccardExpected ==
    <<"S","E","L","E","C","T"," ","S","U","M","(","t","o","t","a","l","_","a","m","o","u",
      "n","t",")"," ","F","R","O","M"," ","o","r","d","e","r","s",";">>

JaccardGenerated ==
    <<"S","E","L","E","C","T"," ","S","U","M","(","t","o","t","a","l","_","a","m","o","u",
      "n","t",")"," ","F","R","O","M"," ","o","r","d","e","r","s"," ","W","H","E","R","E",
      " ","s","t","a","t","u","s","=","'","c","o","m","p","l","e","t","e","d","'",";">>

(***************************************************************************)
(* Evaluator.compare_queries and its inner normalize                       *)
(* (src/evaluation/evaluator.py)                                           *)
(***************************************************************************)

\* a normalize that strips before it removes spaces and quotes
normalize_StripFirst(q) ==
    IF q = None THEN EmptyStr
    ELSE Remove(Remove(Remove(Strip(Lower(q)), " "), "'"), "\"")

\* a normalize that leaves the quote characters in
normalize_KeepQuotes(q) ==
    IF q = None THEN EmptyStr
    ELSE Strip(Remove(Lower(q), " "))

\* normalize(query): None -> "", else
\* query.lower().replace(" ", "").replace("'", "").replace('"', "").strip()
normalize(q) ==
    IF q = None THEN EmptyStr
    ELSE Strip(Remove(Remove(Remove(Lower(q), " "), "'"), "\""))

\* similarity > 0.8 where similarity = len(intersection) / len(union) if union
\* else 0.  The quotient of two small naturals exceeds the double 0.8 exactly
\* when 5 * |intersection| > 4 * |union| (4/5 rounds to the literal 0.8).
SimilarEnough(a, b) ==
    LET intersection == a \cap b
        union == a \cup b
    IN  IF union = {} THEN FALSE
        ELSE 5 * Cardinality(intersection) > 4 * Cardinality(union)

compare_queries(gen, exp) ==
    IF gen = None THEN FALSE
    ELSE LET normalized_generated == normalize(gen)
             normalized_expected == normalize(exp)
         IN  IF normalized_generated = normalized_expected THEN TRUE
             ELSE SimilarEnough(SplitSet(normalized_generated),
                                SplitSet(normalized_expected))


(***************************************************************************)
(* Inputs of the comparator.  One character stands for each class the code *)
(* tells apart: lower-case and upper-case letters, the space (removed by   *)
(* replace), other whitespace (seen only by strip and split) and a quote.  *)
(***************************************************************************)
MaxGenLen == 3
MaxExpLen == 2
MaxNormLen == 3

CmpAlphabet == {"a", "b", "A", " ", "\t", "'"}
NormAlphabet == {"a", "A", " ", "\t", "\n", "'", "\""}

ExamplePairs ==
    { <<ExactGenerated, ExactExpected>>,
      <<ExactExpected, ExactExpected>>,
      <<JaccardGenerated, JaccardExpected>> }

CmpInputs ==
    ((StringsUpTo(CmpAlphabet, MaxGenLen) \cup {None}) \X StringsUpTo(CmpAlphabet, MaxExpLen))
        \cup ExamplePairs

NormInputs ==
    StringsUpTo(NormAlphabet, MaxNormLen) \cup {None, ExactGenerated, JaccardGenerated}

CmpIdle ==
    /\ cmp_pc = "idle"
    /\ generated = None
    /\ expected = EmptyStr
    /\ is_correct = FALSE

NormIdle ==
    /\ norm_pc = "idle"
    /\ query = None
    /\ normalized = EmptyStr
    /\ renormalized = EmptyStr

\* a caller is about to call compare_queries(generated, expected)
CmpInit ==
    /\ cmp_pc = "ready"
    /\ \E p \in CmpInputs : generated = p[1] /\ expected = p[2]
    /\ is_correct = FALSE

\* the call runs to its return
CompareQueries ==
    /\ cmp_pc = "ready"
    /\ cmp_pc' = "done"
    /\ is_correct' = compare_queries(generated, expected)
    /\ UNCHANGED <<generated, expected>>
    /\ UNCHANGED notCmpVars

NormInit ==
    /\ norm_pc = "ready"
    /\ query \in NormInputs
    /\ normalized = EmptyStr
    /\ renormalized = EmptyStr

\* normalize applied to query, and again to its own result
Normalize ==
    /\ norm_pc = "ready"
    /\ norm_pc' = "done"
    /\ normalized' = normalize(query)
    /\ renormalized' = normalize(normalize(query))
    /\ UNCHANGED query
    /\ UNCHANGED notNormVars

\* the phrases of the clarification check (query_generator.py lines 70 and 86)
CLARIFICATION_PHRASES ==
    {
      <<"c","l","a","r","i","f","y">>,
      <<"s","p","e","c","i","f","y">>,
      <<"c","o","u","l","d"," ","y","o","u">>,
      <<"p","l","e","a","s","e">>,
      <<"w","h","a","t"," ","d","o"," ","y","o","u"," ","w","a","n","t">>,
      <<"n","o","t"," ","s","u","r","e">>,
      <<"i","n","f","e","r">>
    }

\* the fixed message returned when nothing could be extracted
GENERIC_CLARIFICATION ==
    <<"I"," ","c","o","u","l","d","n","'","t"," ","u","n","d","e","r","s","t","a","n","d",
      " ","y","o","u","r"," ","q","u","e","r","y","."," ","P","l","e","a","s","e"," ","t",
      "r","y"," ","r","e","p","h","r","a","s","i","n","g"," ","i","t",".">>

GLUED_WHERE ==
    <<"F","R","O","M"," ","o","r","d","e","r","s","W","H","E","R","E">>

SPACED_WHERE ==
    <<"F","R","O","M"," ","o","r","d","e","r","s"," ","W","H","E","R","E">>

GLUED_GROUP_BY ==
    <<"F","R","O","M"," ","o","r","d","e","r","s","G","R","O","U","P"," ","B","Y">>

SPACED_GROUP_BY ==
    <<"F","R","O","M"," ","o","r","d","e","r","s"," ","G","R","O","U","P"," ","B","Y">>

GLUED_ORDER_BY ==
    <<"F","R","O","M"," ","o","r","d","e","r","s","O","R","D","E","R"," ","B","Y">>

SPACED_ORDER_BY ==
    <<"F","R","O","M"," ","o","r","d","e","r","s"," ","O","R","D","E","R"," ","B","Y">>

GLUED_LIMIT ==
    <<"F","R","O","M"," ","o","r","d","e","r","s","L","I","M","I","T">>

SPACED_LIMIT ==
    <<"F","R","O","M"," ","o","r","d","e","r","s"," ","L","I","M","I","T">>

TextBlank ==
    <<" "," ">>

TextQuery ==
    <<"S","E","L","E","C","T"," ","C","O","U","N","T","(","*",")"," ","F","R","O","M"," ",
      "o","r","d","e","r","s",";","\n">>

TextGlued ==
    <<" ","S","E","L","E","C","T"," ","i","d"," ","F","R","O","M"," ","o","r","d","e","r",
      "s","W","H","E","R","E"," ","i","d"," ","="," ","1",";">>

TextClarify ==
    <<"P","l","e","a","s","e"," ","t","e","l","l"," ","m","e"," ","w","h","i","c","h"," ",
      "t","a","b","l","e",".">>


(***************************************************************************)
(* QueryGenerator.generate_query_with_clarification                       *)
(* (src/cfg/query_generator.py)                                            *)
(*                                                                         *)
(* response.output is a sequence of elements.  An element is a record of   *)
(* its three attributes the code probes, input, content and text:          *)
(*   input, text:  Absent | [kind "str", val] | [kind "list", val <<..>>]  *)
(*   content:      Absent | [kind "str", val]                              *)
(*                 | [kind "obj", text, iterable]   an object with .text   *)
(*                 | [kind "list", items <<..>>]    items: [kind "text",   *)
(*                   text] (has .text) or [kind "raw", val] (a plain str)  *)
(***************************************************************************)
Absent == [kind |-> "absent"]

Str(t) == [kind |-> "str", val |-> t]

List(ts) == [kind |-> "list", val |-> ts]

ContentObj(t, it) == [kind |-> "obj", text |-> t, iterable |-> it]

ContentList(items) == [kind |-> "list", items |-> items]

TextItem(t) == [kind |-> "text", text |-> t]

RawItem(t) == [kind |-> "raw", val |-> t]

Element(i, c, t) == [input |-> i, content |-> c, text |-> t]

\* Python truth value of an input or text attribute: None, "" and [] are false
Truthy(v) ==
    \/ v.kind = "str" /\ v.val # EmptyStr
    \/ v.kind = "list" /\ v.val # <<>>

\* Python truth value of a content attribute: an object is true
TruthyContent(c) ==
    \/ c.kind = "str" /\ c.val # EmptyStr
    \/ c.kind = "obj"
    \/ c.kind = "list" /\ c.items # <<>>

\* sub in s
Contains(s, sub) ==
    \E i \in 1..(Len(s) - Len(sub) + 1) : SubSeq(s, i, i + Len(sub) - 1) = sub

\* str.replace(old, new): the non-overlapping occurrences, left to right
RECURSIVE Replace(_, _, _)
Replace(s, old, new) ==
    IF Len(s) < Len(old) THEN s
    ELSE IF SubSeq(s, 1, Len(old)) = old
         THEN new \o Replace(SubSeq(s, Len(old) + 1, Len(s)), old, new)
         ELSE <<Head(s)>> \o Replace(Tail(s), old, new)

\* any(phrase in content_text.lower() for phrase in [...])
LooksLikeClarification(content_text) ==
    \E phrase \in CLARIFICATION_PHRASES : Contains(Lower(content_text), phrase)

\* the values generate_query_with_clarification hands back
Returned(q, c, s) ==
    [outcome |-> "return", query |-> q, clarification |-> c, status |-> s]

Raised(e) == [outcome |-> "raise", error |-> e]

NeedsClarification(message) == Returned(None, message, "needs_clarification")

\* lines 58-64 and 108-114: the first entry of a list, or the string, stripped
StrippedValue(v) == IF v.kind = "list" THEN Strip(v.val[1]) ELSE Strip(v.val)

\* lines 67-81 and 84-97: a stripped text is a clarification or the query
Classify(content_text) ==
    IF LooksLikeClarification(content_text)
    THEN [exit |-> "return", message |-> content_text]
    ELSE [exit |-> "break", generated_query |-> content_text]

\* lines 65-107: an element whose content is set
FromContent(c) ==
    CASE c.kind = "obj" -> Classify(Strip(c.text))
      [] c.kind = "list" ->
            IF c.items[1].kind = "text"
            THEN Classify(Strip(c.items[1].text))
            ELSE [exit |-> "break", generated_query |-> Strip(c.items[1].val)]
      [] OTHER -> [exit |-> "break", generated_query |-> Strip(c.val)]

\* lines 55-114: the first loop from element i on; it stops at the first
\* element with an attribute set, whatever that attribute yields
RECURSIVE FirstLoop(_, _)
FirstLoop(output, i) ==
    IF i > Len(output) THEN [exit |-> "exhausted", generated_query |-> None]
    ELSE LET o == output[i]
         IN  IF Truthy(o.input)
             THEN [exit |-> "break", generated_query |-> StrippedValue(o.input)]
             ELSE IF TruthyContent(o.content) THEN FromContent(o.content)
             ELSE IF Truthy(o.text)
             THEN [exit |-> "break", generated_query |-> StrippedValue(o.text)]
             ELSE FirstLoop(output, i + 1)

\* lines 120-129: the first item of a content list whose text is set, from j on
RECURSIVE FirstTextItem(_, _)
FirstTextItem(items, j) ==
    IF j > Len(items) THEN 0
    ELSE IF items[j].kind = "text" /\ items[j].text # EmptyStr THEN j
    ELSE FirstTextItem(items, j + 1)

\* lines 116-136: nothing was extracted; look for a message in any element,
\* from element i on.  Iterating a str yields characters, which have no text;
\* iterating an object with .text yields nothing with a text, or fails when
\* the object is not iterable.
RECURSIVE SecondLoop(_, _)
SecondLoop(output, i) ==
    IF i > Len(output) THEN NeedsClarification(GENERIC_CLARIFICATION)
    ELSE LET c == output[i].content
         IN  IF ~TruthyContent(c) THEN SecondLoop(output, i + 1)
             ELSE IF c.kind = "obj" /\ ~c.iterable THEN Raised("TypeError")
             ELSE IF c.kind = "list" /\ FirstTextItem(c.items, 1) # 0
             THEN NeedsClarification(c.items[FirstTextItem(c.items, 1)].text)
             ELSE SecondLoop(output, i + 1)

\* a repair list that lacks the LIMIT entry
FixSpacing_NoLimit(q) ==
    Replace(Replace(Replace(q, GLUED_WHERE, SPACED_WHERE),
                    GLUED_GROUP_BY, SPACED_GROUP_BY),
            GLUED_ORDER_BY, SPACED_ORDER_BY)

\* lines 139-143
FixSpacing(q) ==
    Replace(Replace(Replace(Replace(q, GLUED_WHERE, SPACED_WHERE),
                            GLUED_GROUP_BY, SPACED_GROUP_BY),
                    GLUED_ORDER_BY, SPACED_ORDER_BY),
            GLUED_LIMIT, SPACED_LIMIT)

\* lines 138-151: the return with the extracted query
ReturnQuery(q) ==
    LET fixed == FixSpacing(q)
    IN  Returned(fixed, None,
                 IF fixed # EmptyStr THEN "success" ELSE "needs_clarification")

\* a generate_query_with_clarification that goes on to the final return when
\* the extracted text is empty instead of looking for a message
generate_NoEmptyCheck(output) ==
    LET first == FirstLoop(output, 1)
    IN  IF first.exit = "return" THEN NeedsClarification(first.message)
        ELSE IF first.generated_query = None THEN SecondLoop(output, 1)
        ELSE ReturnQuery(first.generated_query)

\* lines 49-151, given the response's output list
generate_query_with_clarification(output) ==
    LET first == FirstLoop(output, 1)
    IN  IF first.exit = "return" THEN NeedsClarification(first.message)
        ELSE IF first.generated_query \in {None, EmptyStr} THEN SecondLoop(output, 1)
        ELSE ReturnQuery(first.generated_query)


(***************************************************************************)
(* Responses of the generation service                                     *)
(***************************************************************************)
MaxOutputs == 2
MaxParts == 2

Texts == {EmptyStr, TextBlank, TextQuery, TextGlued, TextClarify}

\* a structured payload is constrained by the grammar: it is never a message
PayloadTexts == Texts \ {TextClarify}

\* input and text attributes: a string, or a list whose first entry is read
Values(texts) == { Str(t) : t \in texts } \cup { List(<<t>>) : t \in texts }

Items == { TextItem(t) : t \in Texts } \cup { RawItem(TextQuery) }

ContentLists(n) == UNION { { ContentList(s) : s \in [1..k -> Items] } : k \in 1..n }

SimpleContents ==
    { Str(t) : t \in Texts }
        \cup { ContentObj(t, it) : t \in Texts, it \in BOOLEAN }
        \cup ContentLists(1)

\* elements with at most one attribute set, as the service's tool-call and
\* message items have
SimpleElements ==
    { Element(v, Absent, Absent) : v \in Values(PayloadTexts) }
        \cup { Element(Absent, c, Absent) : c \in SimpleContents }
        \cup { Element(Absent, Absent, v) : v \in Values(Texts) }
        \cup { Element(Absent, Absent, Absent) }

\* a message of several parts
MultiPartElements == { Element(Absent, c, Absent) : c \in ContentLists(MaxParts) }

\* elements with more than one attribute set
MixedElements ==
    { Element(Str(TextQuery), ContentList(<<TextItem(TextClarify)>>), Absent),
      Element(Str(TextBlank), ContentList(<<TextItem(TextClarify)>>), Str(TextQuery)),
      Element(Absent, Str(TextQuery), Str(TextGlued)),
      Element(Str(EmptyStr), Str(EmptyStr), Str(TextGlued)),
      Element(List(<<>>), ContentList(<<>>), List(<<>>)) }

Responses ==
    UNION { [1..k -> SimpleElements] : k \in 0..MaxOutputs }
        \cup { <<e>> : e \in MultiPartElements \cup MixedElements }

\* Texts put together from the table clause, the four clause keywords and
\* the space: every way of gluing a keyword to 'FROM orders', several times in
\* one text, next to well-spaced clauses
MaxPieces == 4

FROM_ORDERS == SubSeq(GLUED_WHERE, 1, 11)

Pieces ==
    { FROM_ORDERS,
      SubSeq(GLUED_WHERE, 12, Len(GLUED_WHERE)),
      SubSeq(GLUED_GROUP_BY, 12, Len(GLUED_GROUP_BY)),
      SubSeq(GLUED_ORDER_BY, 12, Len(GLUED_ORDER_BY)),
      SubSeq(GLUED_LIMIT, 12, Len(GLUED_LIMIT)),
      <<" ">> }

RECURSIVE Concat(_)
Concat(ps) == IF ps = <<>> THEN EmptyStr ELSE Head(ps) \o Concat(Tail(ps))

PiecedTexts == { Concat(ps) : ps \in UNION { [1..k -> Pieces] : k \in 0..MaxPieces } }

GluedResponses ==
    { <<Element(Str(t), Absent, Absent)>> : t \in PiecedTexts }
        \cup { <<Element(Absent, ContentList(<<TextItem(t)>>), Absent)>> : t \in PiecedTexts }

NoResult == [outcome |-> "none"]

NoError == "<no error>"

\* messages of the exceptions the service's client raises
ApiErrors == {"Connection error.", "Rate limit exceeded"}

GenIdle ==
    /\ gen_pc = "idle"
    /\ api_calls = 0
    /\ response = <<>>
    /\ api_error = NoError
    /\ gen_result = NoResult

\* generate_query(natural_language_query) has been entered
GenInit ==
    /\ gen_pc = "start"
    /\ api_calls = 0
    /\ response = <<>>
    /\ api_error = NoError
    /\ gen_result = NoResult

\* lines 30-47: the one request to the generation service
CallApi ==
    /\ gen_pc = "start"
    /\ gen_pc' = "waiting"
    /\ api_calls' = api_calls + 1
    /\ UNCHANGED <<response, api_error, gen_result>>
    /\ UNCHANGED notGenVars

\* the service answers and lines 49-151 interpret the answer
ApiReturns ==
    /\ gen_pc = "waiting"
    /\ \E output \in Responses :
          /\ response' = output
          /\ gen_result' = generate_query_with_clarification(output)
    /\ gen_pc' = "done"
    /\ UNCHANGED <<api_calls, api_error>>
    /\ UNCHANGED notGenVars

\* the service answers with a single payload or a single text that may hold
\* glued clauses, and lines 49-151 interpret the answer
ApiReturnsGlued ==
    /\ gen_pc = "waiting"
    /\ \E output \in GluedResponses :
          /\ response' = output
          /\ gen_result' = generate_query_with_clarification(output)
    /\ gen_pc' = "done"
    /\ UNCHANGED <<api_calls, api_error>>
    /\ UNCHANGED notGenVars

\* an except clause that turns the failure into the generic clarification
ApiRaises_Swallowed ==
    /\ gen_pc = "waiting"
    /\ \E e \in ApiErrors :
          /\ api_error' = e
          /\ gen_result' = NeedsClarification(GENERIC_CLARIFICATION)
    /\ gen_pc' = "done"
    /\ UNCHANGED <<response, api_calls>>
    /\ UNCHANGED notGenVars

\* the request fails; lines 153-155 log and re-raise the same exception
ApiRaises ==
    /\ gen_pc = "waiting"
    /\ \E e \in ApiErrors :
          /\ api_error' = e
          /\ gen_result' = Raised(e)
    /\ gen_pc' = "done"
    /\ UNCHANGED <<response, api_calls>>
    /\ UNCHANGED notGenVars

GenNext == CallApi \/ ApiReturns \/ ApiRaises

GluedNext == CallApi \/ ApiReturnsGlued \/ ApiRaises


(***************************************************************************)
(* The evaluation harness (src/evaluation/evaluator.py, run_evaluation and *)
(* calculate_metrics) over the corpus of src/evaluation/test_cases.py.     *)
(*                                                                         *)
(* A dict is a record; a result refers to its test case by the case's      *)
(* position in TEST_CASES, the way the Python dict holds a reference to    *)
(* the corpus entry.  A quotient of two integers is the pair of them.      *)
(***************************************************************************)
TEST_CASES ==
  <<
    [ id |-> "basic-count",
      natural_language_query |-> "count all orders",
      expected_query |->
        <<"S","E","L","E","C","T"," ","C","O","U","N","T","(","*",")"," ","F",
          "R","O","M"," ","o","r","d","e","r","s",";">>,
      description |-> "Basic count query",
      category |-> "basic" ],
    [ id |-> "sum-amount",
      natural_language_query |-> "sum the total amount of all orders",
      expected_query |->
        <<"S","E","L","E","C","T"," ","S","U","M","(","t","o","t","a","l","_",
          "a","m","o","u","n","t",")"," ","F","R","O","M"," ","o","r","d","e",
          "r","s",";">>,
      description |-> "Sum aggregation query",
      category |-> "aggregation" ],
    [ id |-> "time-filter",
      natural_language_query |-> "sum the total of all orders placed in the last 30 hours",
      expected_query |->
        <<"S","E","L","E","C","T"," ","S","U","M","(","t","o","t","a","l","_",
          "a","m","o","u","n","t",")"," ","F","R","O","M"," ","o","r","d","e",
          "r","s"," ","W","H","E","R","E"," ","o","r","d","e","r","_","d","a",
          "t","e"," ",">","="," ","N","O","W","(",")"," ","-"," ","I","N","T",
          "E","R","V","A","L"," ","3","0"," ","H","O","U","R",";">>,
      description |-> "Time-based filtering with aggregation",
      category |-> "filtering" ],
    [ id |-> "status-filter",
      natural_language_query |-> "count orders with status completed",
      expected_query |->
        <<"S","E","L","E","C","T"," ","C","O","U","N","T","(","*",")"," ","F",
          "R","O","M"," ","o","r","d","e","r","s"," ","W","H","E","R","E"," ",
          "s","t","a","t","u","s"," ","="," ","'","c","o","m","p","l","e","t",
          "e","d","'",";">>,
      description |-> "Status filtering",
      category |-> "filtering" ],
    [ id |-> "complex-aggregation",
      natural_language_query |-> "average order amount by status",
      expected_query |->
        <<"S","E","L","E","C","T"," ","s","t","a","t","u","s",","," ","A","V",
          "G","(","t","o","t","a","l","_","a","m","o","u","n","t",")"," ","F",
          "R","O","M"," ","o","r","d","e","r","s"," ","G","R","O","U","P"," ",
          "B","Y"," ","s","t","a","t","u","s",";">>,
      description |-> "Group by aggregation",
      category |-> "complex" ]
  >>

WRONG_QUERY ==
    <<"S","E","L","E","C","T"," ","i","d"," ","F","R","O","M"," ","o","r","d",
      "e","r","s",";">>

categories == <<"basic", "aggregation", "filtering", "complex">>

\* Python's true division n / d, kept exact
Quotient(n, d) == [num |-> n, den |-> d]

\* the 0 and 0.0 of the else branches and of the short-circuit report
Zero == Quotient(0, 1)

\* ==, on numbers
SameNumber(x, y) == x.num * y.den = y.num * x.den

\* sum(1 for r in rs if r['is_correct'])
RECURSIVE CountCorrect(_)
CountCorrect(rs) ==
    IF rs = <<>> THEN 0
    ELSE (IF Head(rs).is_correct THEN 1 ELSE 0) + CountCorrect(Tail(rs))

\* a calculate_metrics whose accuracy divides by the number of failed tests
calculate_metrics_OverFailed(rs, time) ==
    LET total_tests == Len(rs)
        passed_tests == CountCorrect(rs)
        failed_tests == total_tests - passed_tests
        breakdown(category) ==
            LET category_results ==
                    SelectSeq(rs, LAMBDA r : TEST_CASES[r.test_case].category = category)
                category_total == Len(category_results)
                category_passed == CountCorrect(category_results)
            IN  [ total |-> category_total,
                  passed |-> category_passed,
                  accuracy |-> IF category_total > 0
                               THEN Quotient(category_passed, category_total)
                               ELSE Zero ]
    IN  [ total_tests |-> total_tests,
          passed_tests |-> passed_tests,
          failed_tests |-> failed_tests,
          accuracy |-> IF failed_tests > 0
                       THEN Quotient(passed_tests, failed_tests) ELSE Zero,
          average_execution_time |-> IF total_tests > 0
                                     THEN Quotient(time, total_tests) ELSE Zero,
          category_breakdown |->
              [ c \in { categories[n] : n \in DOMAIN categories } |-> breakdown(c) ] ]

\* lines 139-170
calculate_metrics(rs, time) ==
    LET total_tests == Len(rs)
        passed_tests == CountCorrect(rs)
        failed_tests == total_tests - passed_tests
        breakdown(category) ==
            LET category_results ==
                    SelectSeq(rs, LAMBDA r : TEST_CASES[r.test_case].category = category)
                category_total == Len(category_results)
                category_passed == CountCorrect(category_results)
            IN  [ total |-> category_total,
                  passed |-> category_passed,
                  accuracy |-> IF category_total > 0
                               THEN Quotient(category_passed, category_total)
                               ELSE Zero ]
    IN  [ total_tests |-> total_tests,
          passed_tests |-> passed_tests,
          failed_tests |-> failed_tests,
          accuracy |-> IF total_tests > 0
                       THEN Quotient(passed_tests, total_tests) ELSE Zero,
          average_execution_time |-> IF total_tests > 0
                                     THEN Quotient(time, total_tests) ELSE Zero,
          category_breakdown |->
              [ c \in { categories[n] : n \in DOMAIN categories } |-> breakdown(c) ] ]

\* lines 53-63: the report returned when the generator has no client
NOT_FUNCTIONAL == "QueryGenerator is not functional - OpenAI API key not configured"

NotFunctionalReport ==
    [ results |-> <<>>,
      metrics |-> [ accuracy |-> Zero,
                    passed_tests |-> 0,
                    total_tests |-> Len(TEST_CASES),
                    average_execution_time |-> Zero,
                    category_breakdown |-> [ c \in {} |-> Zero ] ],
      error |-> NOT_FUNCTIONAL ]

\* lines 134-137
Report(rs, metrics) == [ results |-> rs, metrics |-> metrics ]

NoReport == [ results |-> <<>> ]

\* ---- what generate_query hands to the harness ----

\* a query value that is not a str (an int, say): str methods are missing on it
NOT_A_STRING == <<"<int>">>

\* str(e) of the AttributeError that normalize raises on it (line 25)
ATTRIBUTE_ERROR == "'int' object has no attribute 'lower'"

DictResponse(d) == [type |-> "dict", value |-> d]

\* a response that is not a dict: a str or None
PlainResponse(v) == [type |-> "plain", value |-> v]

\* the collaborator's ways of returning
CollaboratorKinds ==
    {"echo", "wrong", "clarification", "not_a_string", "plain_echo", "plain_none"}

Answer(kind, test_case) ==
    CASE kind = "echo" ->
             DictResponse(Returned(test_case.expected_query, None, "success"))
      [] kind = "wrong" ->
             DictResponse(Returned(WRONG_QUERY, None, "success"))
      [] kind = "clarification" ->
             DictResponse(NeedsClarification(GENERIC_CLARIFICATION))
      [] kind = "not_a_string" ->
             DictResponse(Returned(NOT_A_STRING, None, "success"))
      [] kind = "plain_echo" -> PlainResponse(test_case.expected_query)
      [] kind = "plain_none" -> PlainResponse(None)

\* an extraction that takes the clarification message when there is no query
ExtractQuery_Message(resp) ==
    IF resp.type = "dict"
    THEN IF resp.value.query = None THEN resp.value.clarification
         ELSE resp.value.query
    ELSE IF resp.value # None THEN resp.value ELSE EmptyStr

\* an extraction that reads dict responses only
ExtractQuery_DictOnly(resp) ==
    IF resp.type = "dict"
    THEN IF resp.value.query = None THEN EmptyStr ELSE resp.value.query
    ELSE EmptyStr

\* lines 83-88
ExtractQuery(resp) ==
    IF resp.type = "dict"
    THEN IF resp.value.query = None THEN EmptyStr ELSE resp.value.query
    ELSE IF resp.value # None THEN resp.value ELSE EmptyStr

\* line 25 raises when the value has no lower()
CompareRaises(generated_query) == generated_query = NOT_A_STRING

\* compare_queries on everything the collaborator can make of case k,
\* worked out once per case and query
IsCorrect ==
    [ k \in DOMAIN TEST_CASES |->
        [ g \in { ExtractQuery(Answer(kind, TEST_CASES[k])) : kind \in CollaboratorKinds }
                    \ {NOT_A_STRING} |->
            compare_queries(g, TEST_CASES[k].expected_query) ] ]

\* lines 92-100 (the timestamp is left out)
Result(k, generated_query, correct, generation_time) ==
    [ id |-> TEST_CASES[k].id,
      test_case |-> k,
      generated_query |-> generated_query,
      expected_query |-> TEST_CASES[k].expected_query,
      is_correct |-> correct,
      execution_time |-> generation_time ]

\* an error result that keeps no message
ErrorResult_NoMessage(k, e) ==
    [ id |-> TEST_CASES[k].id,
      test_case |-> k,
      generated_query |-> EmptyStr,
      expected_query |-> TEST_CASES[k].expected_query,
      is_correct |-> FALSE,
      execution_time |-> 0,
      error |-> "" ]

\* lines 113-122 (the timestamp is left out)
ErrorResult(k, e) ==
    [ id |-> TEST_CASES[k].id,
      test_case |-> k,
      generated_query |-> EmptyStr,
      expected_query |-> TEST_CASES[k].expected_query,
      is_correct |-> FALSE,
      execution_time |-> 0,
      error |-> e ]

\* ---- the progress callback ----

NoCallback == "<no callback>"

\* a callback that returns, one that reads result['error'] (a KeyError on a
\* result without the key), one that always raises
Callbacks == {"returns", "reads_error", "raises"}

KEY_ERROR == "'error'"

CALLBACK_ERROR == "callback failed"

\* does the callback raise on this result, and with what str(e)
CallbackRaisesOn(callback, result) ==
    \/ callback = "raises"
    \/ callback = "reads_error" /\ "error" \notin DOMAIN result

CallbackError(callback) == IF callback = "reads_error" THEN KEY_ERROR ELSE CALLBACK_ERROR

\* the status labels of lines 104 and 127 (without their emoji)
PASS == "PASS"

FAIL == "FAIL"

ERROR == "ERROR"

\* ---- run_evaluation ----

\* generate_query was called for case k (line 76)
GenerateEvent(k) == [event |-> "generate", case |-> k]

\* progress_callback(i + 1, total_tests, description, status, result), the
\* result given by its position in results (lines 109 and 127)
CallbackEvent(current, total, description, status, result) ==
    [ event |-> "callback", current |-> current, total |-> total,
      description |-> description, status |-> status, result |-> result ]

\* the invocation of the callback on the result appended last
InvokeCallback(status) ==
    timeline' = Append(timeline,
        CallbackEvent(ev_i, Len(TEST_CASES), TEST_CASES[ev_i].description, status,
                      Len(results)))

MaxLatency == 2

NoOutcome == <<>>

EvalIdle ==
    /\ ev_pc = "idle"
    /\ client_present = FALSE
    /\ progress_callback = NoCallback
    /\ latency = 0
    /\ ev_i = 0
    /\ results = <<>>
    /\ total_execution_time = 0
    /\ outcomes = NoOutcome
    /\ timeline = <<>>
    /\ report = NoReport
    /\ escaped = NoError

\* an Evaluator around a generator with or without a client, and a caller with
\* or without a progress callback
EvalInit ==
    /\ ev_pc = "start"
    /\ client_present \in BOOLEAN
    /\ progress_callback \in Callbacks \cup {NoCallback}
    /\ latency \in 1..MaxLatency
    /\ ev_i = 0
    /\ results = <<>>
    /\ total_execution_time = 0
    /\ outcomes = NoOutcome
    /\ timeline = <<>>
    /\ report = NoReport
    /\ escaped = NoError

\* lines 51-63
NotConfigured ==
    /\ ev_pc = "start"
    /\ ~client_present
    /\ report' = NotFunctionalReport
    /\ ev_pc' = "returned"
    /\ UNCHANGED <<client_present, progress_callback, latency, ev_i, results,
                   total_execution_time, outcomes, timeline, escaped>>
    /\ UNCHANGED notEvalVars

\* lines 65-71
StartLoop ==
    /\ ev_pc = "start"
    /\ client_present
    /\ results' = <<>>
    /\ total_execution_time' = 0
    /\ ev_i' = 1
    /\ ev_pc' = IF Len(TEST_CASES) > 0 THEN "generate" ELSE "metrics"
    /\ UNCHANGED <<client_present, progress_callback, latency, outcomes, timeline,
                   report, escaped>>
    /\ UNCHANGED notEvalVars

\* the for statement takes the next case, or the loop ends
NextCase ==
    /\ ev_i' = ev_i + 1
    /\ ev_pc' = IF ev_i < Len(TEST_CASES) THEN "generate" ELSE "metrics"

\* lines 108-109 after the append of line 102
AfterResult ==
    IF progress_callback # NoCallback
    THEN ev_pc' = "callback" /\ ev_i' = ev_i
    ELSE NextCase

\* lines 126-127 after the append of line 123
AfterErrorResult ==
    IF progress_callback # NoCallback
    THEN ev_pc' = "error_callback" /\ ev_i' = ev_i
    ELSE NextCase

\* lines 75-102: the generation call returns; when the comparison raises the
\* handler of lines 111-123 records the case
GenerationReturns ==
    /\ ev_pc = "generate"
    /\ \E kind \in CollaboratorKinds :
          LET test_case == TEST_CASES[ev_i]
              generation_time == latency
              generated_query == ExtractQuery(Answer(kind, test_case))
          IN  /\ outcomes' = Append(outcomes,
                     [kind |-> kind, latency |-> generation_time, error |-> NoError])
              /\ timeline' = Append(timeline, GenerateEvent(ev_i))
              /\ total_execution_time' = total_execution_time + generation_time
              /\ IF CompareRaises(generated_query)
                 THEN /\ results' = Append(results, ErrorResult(ev_i, ATTRIBUTE_ERROR))
                      /\ AfterErrorResult
                 ELSE /\ results' = Append(results,
                             Result(ev_i, generated_query,
                                    IsCorrect[ev_i][generated_query], generation_time))
                      /\ AfterResult
    /\ UNCHANGED <<client_present, progress_callback, latency, report, escaped>>
    /\ UNCHANGED notEvalVars

\* lines 76-78 raise; lines 111-123
GenerationRaises ==
    /\ ev_pc = "generate"
    /\ \E e \in ApiErrors :
          /\ outcomes' = Append(outcomes, [kind |-> "raises", latency |-> 0, error |-> e])
          /\ timeline' = Append(timeline, GenerateEvent(ev_i))
          /\ results' = Append(results, ErrorResult(ev_i, e))
    /\ AfterErrorResult
    /\ UNCHANGED <<client_present, progress_callback, latency, total_execution_time,
                   report, escaped>>
    /\ UNCHANGED notEvalVars

\* lines 108-109: the callback returns
CallbackReturns ==
    /\ ev_pc = "callback"
    /\ ~CallbackRaisesOn(progress_callback, results[Len(results)])
    /\ InvokeCallback(IF results[Len(results)].is_correct THEN PASS ELSE FAIL)
    /\ NextCase
    /\ UNCHANGED <<client_present, progress_callback, latency, results,
                   total_execution_time, outcomes, report, escaped>>
    /\ UNCHANGED notEvalVars

\* lines 108-109: the callback raises inside the try; lines 111-123
CallbackRaises ==
    /\ ev_pc = "callback"
    /\ CallbackRaisesOn(progress_callback, results[Len(results)])
    /\ InvokeCallback(IF results[Len(results)].is_correct THEN PASS ELSE FAIL)
    /\ results' = Append(results, ErrorResult(ev_i, CallbackError(progress_callback)))
    /\ ev_pc' = "error_callback"
    /\ UNCHANGED <<client_present, progress_callback, latency, ev_i,
                   total_execution_time, outcomes, report, escaped>>
    /\ UNCHANGED notEvalVars

\* lines 126-127: the callback returns
ErrorCallbackReturns ==
    /\ ev_pc = "error_callback"
    /\ ~CallbackRaisesOn(progress_callback, results[Len(results)])
    /\ InvokeCallback(ERROR)
    /\ NextCase
    /\ UNCHANGED <<client_present, progress_callback, latency, results,
                   total_execution_time, outcomes, report, escaped>>
    /\ UNCHANGED notEvalVars

\* lines 126-127: the callback raises inside the except clause, where nothing
\* catches it
ErrorCallbackRaises ==
    /\ ev_pc = "error_callback"
    /\ CallbackRaisesOn(progress_callback, results[Len(results)])
    /\ InvokeCallback(ERROR)
    /\ escaped' = CallbackError(progress_callback)
    /\ ev_pc' = "raised"
    /\ UNCHANGED <<client_present, progress_callback, latency, ev_i, results,
                   total_execution_time, outcomes, report>>
    /\ UNCHANGED notEvalVars

\* lines 129-137
Finish ==
    /\ ev_pc = "metrics"
    /\ report' = Report(results, calculate_metrics(results, total_execution_time))
    /\ ev_pc' = "returned"
    /\ UNCHANGED <<client_present, progress_callback, latency, ev_i, results,
                   total_execution_time, outcomes, timeline, escaped>>
    /\ UNCHANGED notEvalVars

EvalNext ==
    \/ NotConfigured
    \/ StartLoop
    \/ GenerationReturns
    \/ GenerationRaises
    \/ CallbackReturns
    \/ CallbackRaises
    \/ ErrorCallbackReturns
    \/ ErrorCallbackRaises
    \/ Finish

\* ---- calculate_metrics on its own ----

MaxResults == 3

MaxTotalTime == 2

\* results as calculate_metrics reads them: the case (for its category) and
\* is_correct
MetricsInputs ==
    UNION { [1..n -> { Result(k, EmptyStr, ok, 0) : k \in DOMAIN TEST_CASES, ok \in BOOLEAN }]
                : n \in 0..MaxResults }

NoMetrics == [ total_tests |-> 0 ]

MetricsIdle ==
    /\ met_pc = "idle"
    /\ met_results = <<>>
    /\ met_time = 0
    /\ met_report = NoMetrics

MetricsInit ==
    /\ met_pc = "ready"
    /\ met_results \in MetricsInputs
    /\ met_time \in 0..MaxTotalTime
    /\ met_report = NoMetrics

CalculateMetrics ==
    /\ met_pc = "ready"
    /\ met_report' = calculate_metrics(met_results, met_time)
    /\ met_pc' = "done"
    /\ UNCHANGED <<met_results, met_time>>
    /\ UNCHANGED notMetVars


(***************************************************************************)
(* The streaming evaluation endpoint (src/main.py, run_evaluation_stream): *)
(* the generator yields a start event, runs run_evaluation with a callback *)
(* that collects progress data, then yields the collected updates and the  *)
(* final results.                                                          *)
(***************************************************************************)

\* the progress_callback of lines 124-133: appends to progress_updates, returns
STREAM_CALLBACK == "collects"

\* a `yield` of the generator: the event reaches the consumer
EmitEvent(type, current) == [event |-> "emit", type |-> type, current |-> current]

\* progress_updates: one entry per invocation of the callback (line 133)
progress_updates == SelectSeq(timeline, LAMBDA e : e.event = "callback")

StreamIdle ==
    /\ stream_pc = "idle"
    /\ sent = 0

\* a request to /evaluate-stream, the generator being configured or not
StreamInit ==
    /\ stream_pc = "begin"
    /\ sent = 0
    /\ ev_pc = "idle"
    /\ client_present \in BOOLEAN
    /\ progress_callback = STREAM_CALLBACK
    /\ latency \in 1..MaxLatency
    /\ ev_i = 0
    /\ results = <<>>
    /\ total_execution_time = 0
    /\ outcomes = NoOutcome
    /\ timeline = <<>>
    /\ report = NoReport
    /\ escaped = NoError

\* lines 119-136: yield the start event, then call run_evaluation
EmitStart ==
    /\ stream_pc = "begin"
    /\ timeline' = Append(timeline, EmitEvent("start", 0))
    /\ stream_pc' = "running"
    /\ ev_pc' = "start"
    /\ UNCHANGED <<client_present, progress_callback, latency, ev_i, results,
                   total_execution_time, outcomes, report, escaped>>
    /\ UNCHANGED sent
    /\ UNCHANGED notStreamEvalVars

\* lines 139-140: after run_evaluation has returned, yield the next update
EmitProgress ==
    /\ stream_pc = "running"
    /\ ev_pc = "returned"
    /\ sent < Len(progress_updates)
    /\ timeline' = Append(timeline,
                          EmitEvent("progress", progress_updates[sent + 1].current))
    /\ sent' = sent + 1
    /\ UNCHANGED <<ev_pc, client_present, progress_callback, latency, ev_i, results,
                   total_execution_time, outcomes, report, escaped>>
    /\ UNCHANGED stream_pc
    /\ UNCHANGED notStreamEvalVars

\* line 143: yield the final results
EmitComplete ==
    /\ stream_pc = "running"
    /\ ev_pc = "returned"
    /\ sent = Len(progress_updates)
    /\ timeline' = Append(timeline, EmitEvent("complete", 0))
    /\ stream_pc' = "done"
    /\ UNCHANGED <<ev_pc, client_present, progress_callback, latency, ev_i, results,
                   total_execution_time, outcomes, report, escaped>>
    /\ UNCHANGED sent
    /\ UNCHANGED notStreamEvalVars

StreamNext ==
    \/ EmitStart
    \/ NotConfigured
    \/ StartLoop
    \/ GenerationReturns
    \/ GenerationRaises
    \/ CallbackReturns
    \/ ErrorCallbackReturns
    \/ Finish
    \/ EmitProgress
    \/ EmitComplete


(***************************************************************************)
(* Config (src/config.py) and the ClickHouseClient                         *)
(* (src/database/clickhouse_client.py).  Configuration values are atomic   *)
(* strings and numbers; a connection made by clickhouse_connect.get_client *)
(* is its position in db.connections.                                      *)
(***************************************************************************)

\* Python's None among atomic strings
NONE == "<None>"

\* not v, for a string or None
Falsy(v) == v \in {NONE, ""}

\* str.lower() on the host spellings of the model (all others are lower case)
LowerHost(h) ==
    CASE h = "NULL" -> "null"
      [] h = "None" -> "none"
      [] OTHER -> h

\* line 16, 32, 74 and 96: the spellings that stand for no host
NO_HOST_WORDS == {"none", "null", ""}

\* lines 11-20: the defaults, with or without an API key in the environment
DefaultConfig(api_key) ==
    [ OPENAI_API_KEY |-> api_key,
      CLICKHOUSE_HOST |-> "localhost",
      CLICKHOUSE_PORT |-> 8123,
      CLICKHOUSE_USERNAME |-> "default",
      CLICKHOUSE_PASSWORD |-> "",
      CLICKHOUSE_DATABASE |-> "default" ]

\* lines 27-48
validate_config(cls) ==
    (IF Falsy(cls.CLICKHOUSE_HOST) \/ LowerHost(cls.CLICKHOUSE_HOST) \in NO_HOST_WORDS
     THEN <<"CLICKHOUSE_HOST is not properly configured">> ELSE <<>>)
    \o (IF cls.CLICKHOUSE_PORT = 0 \/ cls.CLICKHOUSE_PORT <= 0
        THEN <<"CLICKHOUSE_PORT is not properly configured">> ELSE <<>>)
    \o (IF Falsy(cls.CLICKHOUSE_USERNAME)
        THEN <<"CLICKHOUSE_USERNAME is not properly configured">> ELSE <<>>)
    \o (IF Falsy(cls.CLICKHOUSE_DATABASE)
        THEN <<"CLICKHOUSE_DATABASE is not properly configured">> ELSE <<>>)
    \o (IF Falsy(cls.OPENAI_API_KEY)
        THEN <<"OPENAI_API_KEY is not properly configured">> ELSE <<>>)

\* app_config.json does not exist
NO_FILE == [ exists |-> FALSE ]

\* app_config.json after json.dump(config_dict, f)
Saved(config_dict) == [ exists |-> TRUE, content |-> config_dict ]

\* a section of a configuration request: None, or a dict with some keys
NoSection == [ none |-> TRUE ]

Section(items) == [ none |-> FALSE, items |-> items ]

\* key in section, for a section that is a dict
HasKey(section, key) == key \in DOMAIN section.items

\* a port as a request carries it: a number (or its digits), or a word that
\* is no number
Port(n) == [ number |-> TRUE, value |-> n ]

NOT_A_NUMBER == [ number |-> FALSE, value |-> 0 ]

TYPE_ERROR == "argument of type 'NoneType' is not iterable"

VALUE_ERROR == "invalid literal for int() with base 10"

\* what update_config did: Config and the file afterwards, and whether it raised
Updated(cls, file, raised, error) ==
    [ config |-> cls, file |-> file, raised |-> raised, error |-> error ]

\* lines 87-90
UpdateOpenai(cls, section) ==
    IF HasKey(section, "api_key")
    THEN [ cls EXCEPT !.OPENAI_API_KEY = section.items.api_key ]
    ELSE cls

\* lines 94-96
UpdateHost(cls, section) ==
    IF HasKey(section, "host")
    THEN [ cls EXCEPT !.CLICKHOUSE_HOST =
               IF ~Falsy(section.items.host)
                  /\ LowerHost(section.items.host) \notin NO_HOST_WORDS
               THEN section.items.host ELSE "localhost" ]
    ELSE cls

\* lines 97-98, for a port that is a number
UpdatePort(cls, section) ==
    IF HasKey(section, "port")
    THEN [ cls EXCEPT !.CLICKHOUSE_PORT = section.items.port.value ]
    ELSE cls

\* lines 99-104
UpdateRest(cls, section) ==
    [ cls EXCEPT
        !.CLICKHOUSE_USERNAME =
            IF HasKey(section, "username") THEN section.items.username ELSE @,
        !.CLICKHOUSE_PASSWORD =
            IF HasKey(section, "password") THEN section.items.password ELSE @,
        !.CLICKHOUSE_DATABASE =
            IF HasKey(section, "database") THEN section.items.database ELSE @ ]

\* lines 84-107, for a config_dict that has both keys (request.dict() always
\* has them); the file is written unless the write fails, which line 81-82
\* swallows
update_config(cls, file, config_dict, writable) ==
    IF config_dict.openai.none THEN Updated(cls, file, TRUE, TYPE_ERROR)
    ELSE LET with_key == UpdateOpenai(cls, config_dict.openai)
         IN  IF config_dict.clickhouse.none
             THEN Updated(with_key, file, TRUE, TYPE_ERROR)
             ELSE LET with_host == UpdateHost(with_key, config_dict.clickhouse)
                  IN  IF /\ HasKey(config_dict.clickhouse, "port")
                         /\ ~config_dict.clickhouse.items.port.number
                      THEN Updated(with_host, file, TRUE, VALUE_ERROR)
                      ELSE Updated(UpdateRest(UpdatePort(with_host, config_dict.clickhouse),
                                              config_dict.clickhouse),
                                   IF writable THEN Saved(config_dict) ELSE file,
                                   FALSE, NONE)

\* ---- ClickHouseClient ----

\* self.client is None
NoHandle == 0

\* line 10: a client that has not connected
NewClient == [ client |-> NoHandle, connections |-> <<>>, queries |-> <<>> ]

\* what a method did: the client afterwards, whether it raised, what it returned
Outcome(d, raised, value) == [ db |-> d, raised |-> raised, value |-> value ]

\* clickhouse_connect.get_client(host, port, ...) succeeding: one more connection
GetClient(d, host, port) ==
    [ d EXCEPT !.connections = Append(@, [ open |-> TRUE, host |-> host, port |-> port ]) ]

\* handle.close()
Close(d, handle) == [ d EXCEPT !.connections[handle].open = FALSE ]

\* handle.query(text): raises on a closed connection or when the server fails
Query(d, handle, text, server_ok) ==
    LET was_open == d.connections[handle].open
    IN  Outcome([ d EXCEPT !.queries = Append(@, [ connection |-> handle,
                                                  was_open |-> was_open,
                                                  text |-> text ]) ],
                ~(was_open /\ server_ok),
                IF was_open /\ server_ok THEN "rows" ELSE "query failed")

\* lines 14-36
connect(d, cls, reachable) ==
    IF validate_config(cls) # <<>> THEN Outcome(d, TRUE, "Configuration errors")
    ELSE IF ~reachable THEN Outcome(d, TRUE, "cannot connect")
    ELSE Outcome([ GetClient(d, cls.CLICKHOUSE_HOST, cls.CLICKHOUSE_PORT)
                       EXCEPT !.client = Len(d.connections) + 1 ],
                 FALSE, NONE)

\* lines 38-60
reconnect(d, cls, reachable) ==
    LET closed == IF d.client # NoHandle THEN Close(d, d.client) ELSE d
    IN  IF ~reachable THEN Outcome(closed, FALSE, FALSE)
        ELSE Outcome([ GetClient(closed, cls.CLICKHOUSE_HOST, cls.CLICKHOUSE_PORT)
                           EXCEPT !.client = Len(closed.connections) + 1 ],
                     FALSE, TRUE)

\* an execute_query that sends the text again when the query fails
execute_query_Retry(d, cls, text, reachable, server_ok) ==
    LET connected == IF d.client = NoHandle THEN connect(d, cls, reachable)
                     ELSE Outcome(d, FALSE, NONE)
        first == Query(connected.db, connected.db.client, text, server_ok)
    IN  IF connected.raised THEN connected
        ELSE IF first.raised THEN Query(first.db, first.db.client, text, server_ok)
        ELSE first

\* lines 105-123
execute_query(d, cls, text, reachable, server_ok) ==
    LET connected == IF d.client = NoHandle THEN connect(d, cls, reachable)
                     ELSE Outcome(d, FALSE, NONE)
    IN  IF connected.raised THEN connected
        ELSE Query(connected.db, connected.db.client, text, server_ok)

PROBE == "SELECT 1 as test"

\* lines 125-136
test_connection(d, cls, reachable, server_ok) ==
    LET executed == execute_query(d, cls, PROBE, reachable, server_ok)
    IN  Outcome(executed.db, FALSE, ~executed.raised)

\* not port
FalsyPort(port) == port.number /\ port.value = 0

\* lines 62-103, for the clickhouse section of the given configuration
test_connection_with_config(d, section, reachable, server_ok) ==
    IF Falsy(section.host) \/ LowerHost(section.host) \in NO_HOST_WORDS
    THEN Outcome(d, FALSE, FALSE)
    ELSE IF FalsyPort(section.port) THEN Outcome(d, FALSE, FALSE)
    ELSE IF ~section.port.number THEN Outcome(d, FALSE, FALSE)
    ELSE IF section.port.value <= 0 THEN Outcome(d, FALSE, FALSE)
    ELSE IF ~reachable THEN Outcome(d, FALSE, FALSE)
    ELSE LET made == GetClient(d, section.host, section.port.value)
             test_client == Len(made.connections)
             queried == Query(made, test_client, PROBE, server_ok)
         IN  IF queried.raised THEN Outcome(queried.db, FALSE, FALSE)
             ELSE Outcome(Close(queried.db, test_client), FALSE, TRUE)

\* ---- a ClickHouseClient under a sequence of calls ----

MaxDbCalls == 3

NoRequest == [ endpoint |-> "none" ]

NoReply == [ status |-> "none" ]

NoSnapshot == [ taken |-> FALSE ]

ServiceIdle ==
    /\ svc_pc = "idle"
    /\ svc_calls = 0
    /\ request = NoRequest
    /\ reply = NoReply
    /\ config = DefaultConfig(NONE)
    /\ config_file = NO_FILE
    /\ qg_api_key = NONE
    /\ db = NewClient
    /\ before = NoSnapshot

\* main.py lines 23-28 with a usable configuration; the server may be reachable
\* or not at each attempt
DbInit ==
    /\ svc_pc = "ready"
    /\ svc_calls = 0
    /\ request = NoRequest
    /\ reply = NoReply
    /\ config \in { DefaultConfig("sk-old"), DefaultConfig(NONE) }
    /\ config_file = NO_FILE
    /\ qg_api_key = config.OPENAI_API_KEY
    /\ db = NewClient
    /\ before = NoSnapshot

\* the clickhouse sections a connection test is called with
TEST_SECTIONS ==
    { [ host |-> h, port |-> p ] : h \in {"db.internal", "NULL"},
                                   p \in {Port(9000), Port(0), NOT_A_NUMBER} }

\* what the caller of a method sees
MethodReply(outcome) ==
    [ status |-> IF outcome.raised THEN "raised" ELSE "returned", value |-> outcome.value ]

\* the text of the query the calls of this section execute
SOME_QUERY == "SELECT COUNT(*) FROM orders;"

DbConnect ==
    /\ svc_pc = "ready"
    /\ svc_calls < MaxDbCalls
    /\ \E reachable \in BOOLEAN :
           LET outcome == connect(db, config, reachable)
           IN  /\ db' = outcome.db
               /\ reply' = MethodReply(outcome)
    /\ svc_calls' = svc_calls + 1
    /\ request' = [ endpoint |-> "connect" ]
    /\ UNCHANGED <<svc_pc, config, config_file, qg_api_key, before>>
    /\ UNCHANGED notSvcVars

DbReconnect ==
    /\ svc_pc = "ready"
    /\ svc_calls < MaxDbCalls
    /\ \E reachable \in BOOLEAN :
           LET outcome == reconnect(db, config, reachable)
           IN  /\ db' = outcome.db
               /\ reply' = MethodReply(outcome)
    /\ svc_calls' = svc_calls + 1
    /\ request' = [ endpoint |-> "reconnect" ]
    /\ UNCHANGED <<svc_pc, config, config_file, qg_api_key, before>>
    /\ UNCHANGED notSvcVars

DbExecuteQuery ==
    /\ svc_pc = "ready"
    /\ svc_calls < MaxDbCalls
    /\ \E reachable \in BOOLEAN, server_ok \in BOOLEAN :
           LET outcome == execute_query(db, config, SOME_QUERY, reachable, server_ok)
           IN  /\ db' = outcome.db
               /\ reply' = MethodReply(outcome)
    /\ svc_calls' = svc_calls + 1
    /\ request' = [ endpoint |-> "execute_query" ]
    /\ UNCHANGED <<svc_pc, config, config_file, qg_api_key, before>>
    /\ UNCHANGED notSvcVars

DbTestConnection ==
    /\ svc_pc = "ready"
    /\ svc_calls < MaxDbCalls
    /\ \E reachable \in BOOLEAN, server_ok \in BOOLEAN :
           LET outcome == test_connection(db, config, reachable, server_ok)
           IN  /\ db' = outcome.db
               /\ reply' = MethodReply(outcome)
    /\ svc_calls' = svc_calls + 1
    /\ request' = [ endpoint |-> "test_connection" ]
    /\ UNCHANGED <<svc_pc, config, config_file, qg_api_key, before>>
    /\ UNCHANGED notSvcVars

DbTestConnectionWithConfig ==
    /\ svc_pc = "ready"
    /\ svc_calls < MaxDbCalls
    /\ \E section \in TEST_SECTIONS, reachable \in BOOLEAN, server_ok \in BOOLEAN :
           LET outcome == test_connection_with_config(db, section, reachable, server_ok)
           IN  /\ db' = outcome.db
               /\ reply' = MethodReply(outcome)
    /\ svc_calls' = svc_calls + 1
    /\ request' = [ endpoint |-> "test_connection_with_config" ]
    /\ UNCHANGED <<svc_pc, config, config_file, qg_api_key, before>>
    /\ UNCHANGED notSvcVars

DbNext ==
    \/ DbConnect
    \/ DbReconnect
    \/ DbExecuteQuery
    \/ DbTestConnection
    \/ DbTestConnectionWithConfig


(***************************************************************************)
(* The query endpoint (src/main.py, generate_and_execute_query): one       *)
(* request, from the generation call to the reply.                         *)
(***************************************************************************)

\* a client that has connected once
ConnectedClient == connect(NewClient, DefaultConfig("sk-old"), TRUE).db

\* HTTPException(status_code=500, detail=str(e))
ServerError(detail) == [ status |-> "500", detail |-> detail ]

\* QueryResponse(...)
QueryResponse(generated_query, clarification, status, result) ==
    [ generated_query |-> generated_query,
      clarification |-> clarification,
      status |-> status,
      results |-> result ]

\* line 81: the truth value of response["query"]
HasQuery(result) == result.query \notin {None, EmptyStr}

\* POST /query has been received and generate_query is entered
QueryInit ==
    /\ svc_pc = "generate"
    /\ svc_calls = 0
    /\ request = [ endpoint |-> "query" ]
    /\ reply = NoReply
    /\ config \in { DefaultConfig("sk-old"), DefaultConfig(NONE) }
    /\ config_file = NO_FILE
    /\ qg_api_key = config.OPENAI_API_KEY
    /\ db \in { NewClient, ConnectedClient }
    /\ before = NoSnapshot

\* lines 99-101, when generate_query raised at line 68
QueryGenerationRaised ==
    /\ svc_pc = "generate"
    /\ gen_pc = "done"
    /\ gen_result.outcome = "raise"
    /\ reply' = ServerError(gen_result.error)
    /\ svc_pc' = "replied"
    /\ UNCHANGED <<svc_calls, request, config, config_file, qg_api_key, db, before>>
    /\ UNCHANGED notSvcVars

\* lines 71-78
QueryNeedsClarification ==
    /\ svc_pc = "generate"
    /\ gen_pc = "done"
    /\ gen_result.outcome = "return"
    /\ gen_result.status = "needs_clarification"
    /\ reply' = QueryResponse(None, gen_result.clarification, "needs_clarification", NONE)
    /\ svc_pc' = "replied"
    /\ UNCHANGED <<svc_calls, request, config, config_file, qg_api_key, db, before>>
    /\ UNCHANGED notSvcVars

\* lines 81-101: the query is executed if there is one
QueryAnswered ==
    /\ svc_pc = "generate"
    /\ gen_pc = "done"
    /\ gen_result.outcome = "return"
    /\ gen_result.status # "needs_clarification"
    /\ IF HasQuery(gen_result)
       THEN /\ svc_calls' = svc_calls + 1
            /\ \E reachable \in BOOLEAN, server_ok \in BOOLEAN :
                  LET executed == execute_query(db, config, gen_result.query,
                                                reachable, server_ok)
                  IN  /\ db' = executed.db
                      /\ reply' = IF executed.raised THEN ServerError(executed.value)
                                  ELSE QueryResponse(gen_result.query,
                                                     gen_result.clarification,
                                                     "success", executed.value)
       ELSE /\ reply' = QueryResponse(None, gen_result.clarification, "error", NONE)
            /\ UNCHANGED <<svc_calls, db>>
    /\ svc_pc' = "replied"
    /\ UNCHANGED <<request, config, config_file, qg_api_key, before>>
    /\ UNCHANGED notSvcVars

QueryNext ==
    \/ CallApi
    \/ ApiReturns
    \/ ApiRaises
    \/ QueryGenerationRaised
    \/ QueryNeedsClarification
    \/ QueryAnswered


(***************************************************************************)
(* The config endpoint (src/main.py, update_configuration): one request.   *)
(***************************************************************************)

\* the methods of class QueryGenerator (src/cfg/query_generator.py)
QUERY_GENERATOR_METHODS == { "generate_query", "generate_query_with_clarification" }

NO_RECONNECT == "'QueryGenerator' object has no attribute 'reconnect'"

FULL_CLICKHOUSE ==
    Section([ host |-> "db.internal", port |-> Port(9000), username |-> "analyst",
              password |-> "pw", database |-> "shop" ])

CLICKHOUSE_SECTIONS ==
    { NoSection,
      FULL_CLICKHOUSE,
      Section([ host |-> "NULL", port |-> Port(9000) ]),
      Section([ host |-> "db.internal", port |-> NOT_A_NUMBER ]),
      Section([ database |-> "shop" ]) }

OPENAI_SECTIONS ==
    { NoSection, Section([ api_key |-> "sk-new" ]), Section([ model |-> "gpt-5" ]) }

\* what the all-or-nothing property compares with
Snapshot(cls, file, key, d) ==
    [ taken |-> TRUE, config |-> cls, config_file |-> file, qg_api_key |-> key, db |-> d ]

\* POST /config has been received; line 159 has made config_dict
ConfigInit ==
    /\ svc_pc = "update"
    /\ svc_calls = 0
    /\ \E clickhouse \in CLICKHOUSE_SECTIONS, openai \in OPENAI_SECTIONS :
          request = [ endpoint |-> "config", clickhouse |-> clickhouse, openai |-> openai ]
    /\ reply = NoReply
    /\ config \in { DefaultConfig("sk-old"), DefaultConfig(NONE) }
    /\ config_file \in { NO_FILE,
                         Saved([ clickhouse |-> NoSection,
                                 openai |-> Section([ api_key |-> "sk-old" ]) ]) }
    /\ qg_api_key = config.OPENAI_API_KEY
    /\ db \in { NewClient, ConnectedClient }
    /\ before = Snapshot(config, config_file, qg_api_key, db)

\* line 160, and lines 169-171 when it raises
UpdateConfig ==
    /\ svc_pc = "update"
    /\ \E writable \in BOOLEAN :
          LET updated == update_config(config, config_file, request, writable)
          IN  /\ config' = updated.config
              /\ config_file' = updated.file
              /\ IF updated.raised
                 THEN /\ reply' = ServerError(updated.error)
                      /\ svc_pc' = "replied"
                 ELSE /\ reply' = reply
                      /\ svc_pc' = "reconnect_db"
    /\ UNCHANGED <<svc_calls, request, qg_api_key, db, before>>
    /\ UNCHANGED notSvcVars

\* lines 163-164: the key is always in config_dict; the result of reconnect is
\* not looked at
ReconnectDatabase ==
    /\ svc_pc = "reconnect_db"
    /\ \E reachable \in BOOLEAN : db' = reconnect(db, config, reachable).db
    /\ svc_calls' = svc_calls + 1
    /\ svc_pc' = "reconnect_generator"
    /\ UNCHANGED <<request, reply, config, config_file, qg_api_key, before>>
    /\ UNCHANGED notSvcVars

\* lines 165-171: the key is always in config_dict; looking up the method
\* raises AttributeError when the class does not have it
ReconnectGenerator ==
    /\ svc_pc = "reconnect_generator"
    /\ IF "reconnect" \in QUERY_GENERATOR_METHODS
       THEN /\ qg_api_key' = config.OPENAI_API_KEY
            /\ reply' = [ status |-> "success",
                          message |-> "Configuration updated successfully" ]
       ELSE /\ qg_api_key' = qg_api_key
            /\ reply' = ServerError(NO_RECONNECT)
    /\ svc_pc' = "replied"
    /\ UNCHANGED <<svc_calls, request, config, config_file, db, before>>
    /\ UNCHANGED notSvcVars

ConfigNext ==
    \/ UpdateConfig
    \/ ReconnectDatabase
    \/ ReconnectGenerator


(***************************************************************************)
(* The grammar (src/cfg/grammar.py, CLICKHOUSE_GRAMMAR).  A terminal is    *)
(* the sequence of its characters.  A rule maps a text s and a set P of    *)
(* positions (the number of characters read so far) to the positions where *)
(* a derivation of the rule that starts at a position of P can end.  A     *)
(* text is a sentence when the start rule leads from 0 to its length.      *)
(***************************************************************************)
\* lines 6-44: the terminals; BY is written BY_KW
Tok ==
    [ SP |-> <<" ">>,
      COMMA |-> <<",">>,
      GT |-> <<">">>,
      LT |-> <<"<">>,
      GTE |-> <<">","=">>,
      LTE |-> <<"<","=">>,
      EQ |-> <<"=">>,
      NEQ |-> <<"!","=">>,
      SEMI |-> <<";">>,
      LPAREN |-> <<"(">>,
      RPAREN |-> <<")">>,
      ASTERISK |-> <<"*">>,
      SELECT |-> <<"S","E","L","E","C","T">>,
      FROM |-> <<"F","R","O","M">>,
      WHERE |-> <<"W","H","E","R","E">>,
      GROUP |-> <<"G","R","O","U","P">>,
      BY_KW |-> <<"B","Y">>,
      ORDER |-> <<"O","R","D","E","R">>,
      LIMIT |-> <<"L","I","M","I","T">>,
      AND |-> <<"A","N","D">>,
      OR |-> <<"O","R">>,
      ASC |-> <<"A","S","C">>,
      DESC |-> <<"D","E","S","C">>,
      INTERVAL |-> <<"I","N","T","E","R","V","A","L">>,
      NOW |-> <<"N","O","W","(",")">>,
      HOUR |-> <<"H","O","U","R">>,
      DAY |-> <<"D","A","Y">>,
      WEEK |-> <<"W","E","E","K">>,
      MONTH |-> <<"M","O","N","T","H">>,
      YEAR |-> <<"Y","E","A","R">>,
      COUNT |-> <<"C","O","U","N","T">>,
      SUM |-> <<"S","U","M">>,
      AVG |-> <<"A","V","G">>,
      MAX |-> <<"M","A","X">>,
      MIN |-> <<"M","I","N">> ]

\* the word w read at a position of P
Lit(w, s, P) ==
    { p + Len(w) : p \in { q \in P : /\ q + Len(w) <= Len(s)
                                    /\ SubSeq(s, q + 1, q + Len(w)) = w } }

\* one of the words read at a position of P
AnyOf(words, s, P) == UNION { Lit(w, s, P) : w \in words }

\* [0-9]
DIGITS == {"0","1","2","3","4","5","6","7","8","9"}

\* [A-Za-z0-9_ ]
LITERAL_CHARS ==
    {"A","B","C","D","E","F","G","H","I","J","K","L","M","N","O","P","Q","R","S",
     "T","U","V","W","X","Y","Z","a","b","c","d","e","f","g","h","i","j","k","l",
     "m","n","o","p","q","r","s","t","u","v","w","x","y","z","_"," "} \cup DIGITS

\* [0-9]+ read at a position of P
SomeDigits(s, P) ==
    { q \in 1..Len(s) : \E p \in P : /\ p < q
                                     /\ \A i \in (p + 1)..q : s[i] \in DIGITS }

\* line 87: /[0-9]+(\.[0-9]+)?/
number_literal(s, P) ==
    LET whole == SomeDigits(s, P)
    IN  whole \cup SomeDigits(s, Lit(<<".">>, s, whole))

\* a string_literal that takes any character but the quote
string_literal_AnyChar(s, P) ==
    { q \in 2..Len(s) : \E p \in P : /\ p + 2 <= q
                                     /\ s[p + 1] = "'"
                                     /\ s[q] = "'"
                                     /\ \A i \in (p + 2)..(q - 1) : s[i] # "'" }

\* line 86: /'[A-Za-z0-9_ ]*'/
string_literal(s, P) ==
    { q \in 2..Len(s) : \E p \in P : /\ p + 2 <= q
                                     /\ s[p + 1] = "'"
                                     /\ s[q] = "'"
                                     /\ \A i \in (p + 2)..(q - 1) : s[i] \in LITERAL_CHARS }

\* line 83
COLUMN_NAMES ==
    { <<"i","d">>,
      <<"c","u","s","t","o","m","e","r","_","i","d">>,
      <<"p","r","o","d","u","c","t","_","i","d">>,
      <<"o","r","d","e","r","_","d","a","t","e">>,
      <<"t","o","t","a","l","_","a","m","o","u","n","t">>,
      <<"s","t","a","t","u","s">>,
      <<"c","r","e","a","t","e","d","_","a","t">>,
      <<"u","p","d","a","t","e","d","_","a","t">>,
      <<"n","a","m","e">>,
      <<"e","m","a","i","l">>,
      <<"p","r","i","c","e">>,
      <<"c","a","t","e","g","o","r","y">> }

column_name(s, P) == AnyOf(COLUMN_NAMES, s, P)

TABLE_NAMES ==
    { <<"o","r","d","e","r","s">>,
      <<"c","u","s","t","o","m","e","r","s">>,
      <<"p","r","o","d","u","c","t","s">> }

\* line 60
table_name(s, P) == AnyOf(TABLE_NAMES, s, P)

\* line 80
limit_clause(s, P) == number_literal(s, Lit(Tok.SP, s, Lit(Tok.LIMIT, s, P)))

\* line 77: the space after the column is not optional
order_clause(s, P) ==
    LET order_by == Lit(Tok.SP, s, Lit(Tok.BY_KW, s, Lit(Tok.SP, s, Lit(Tok.ORDER, s, P))))
        column == column_name(s, order_by)
        spaced == Lit(Tok.SP, s, column)
    IN  spaced \cup AnyOf({Tok.ASC, Tok.DESC}, s, spaced)

\* (COMMA SP column_name)*
RECURSIVE MoreColumns(_, _)
MoreColumns(s, P) ==
    IF P = {} THEN {}
    ELSE P \cup MoreColumns(s, column_name(s, Lit(Tok.SP, s, Lit(Tok.COMMA, s, P))))

\* line 74
group_clause(s, P) ==
    LET group_by == Lit(Tok.SP, s, Lit(Tok.BY_KW, s, Lit(Tok.SP, s, Lit(Tok.GROUP, s, P))))
    IN  MoreColumns(s, column_name(s, group_by))

\* line 71
time_unit(s, P) == AnyOf({Tok.HOUR, Tok.DAY, Tok.WEEK, Tok.MONTH, Tok.YEAR}, s, P)

\* line 70
time_condition(s, P) ==
    LET compared == Lit(Tok.SP, s, AnyOf({Tok.GTE, Tok.LTE}, s, Lit(Tok.SP, s, column_name(s, P))))
        minus == Lit(Tok.SP, s, Lit(<<"-">>, s, Lit(Tok.SP, s, Lit(Tok.NOW, s, compared))))
    IN  time_unit(s, Lit(Tok.SP, s, number_literal(s, Lit(Tok.SP, s, Lit(Tok.INTERVAL, s, minus)))))

\* line 66
value(s, P) ==
    string_literal(s, P) \cup number_literal(s, P) \cup Lit(<<"N","U","L","L">>, s, P)

\* (COMMA SP value)*
RECURSIVE MoreValues(_, _)
MoreValues(s, P) ==
    IF P = {} THEN {}
    ELSE P \cup MoreValues(s, value(s, Lit(Tok.SP, s, Lit(Tok.COMMA, s, P))))

\* line 67
value_list(s, P) == MoreValues(s, value(s, P))

\* line 65
comparison_operator(s, P) == AnyOf({Tok.EQ, Tok.NEQ, Tok.GT, Tok.LT, Tok.GTE, Tok.LTE}, s, P)

\* line 64
condition(s, P) ==
    LET column == Lit(Tok.SP, s, column_name(s, P))
        opened == Lit(Tok.LPAREN, s, Lit(Tok.SP, s, Lit(<<"I","N">>, s, column)))
    IN  value(s, Lit(Tok.SP, s, comparison_operator(s, column)))
        \cup Lit(Tok.RPAREN, s, value_list(s, opened))
        \cup time_condition(s, P)

\* (SP (AND | OR) SP condition)*
RECURSIVE MoreConditions(_, _)
MoreConditions(s, P) ==
    IF P = {} THEN {}
    ELSE LET joined == Lit(Tok.SP, s, AnyOf({Tok.AND, Tok.OR}, s, Lit(Tok.SP, s, P)))
         IN  P \cup MoreConditions(s, condition(s, joined))

\* line 63
where_clause(s, P) == MoreConditions(s, condition(s, Lit(Tok.SP, s, Lit(Tok.WHERE, s, P))))

\* line 55
aggregate_func_name(s, P) == AnyOf({Tok.SUM, Tok.AVG, Tok.MAX, Tok.MIN}, s, P)

\* line 54
aggregate_function(s, P) ==
    Lit(Tok.RPAREN, s, Lit(Tok.ASTERISK, s, Lit(Tok.LPAREN, s, Lit(Tok.COUNT, s, P))))
    \cup Lit(Tok.RPAREN, s, column_name(s, Lit(Tok.LPAREN, s, aggregate_func_name(s, P))))

\* line 56
column_list(s, P) == MoreColumns(s, column_name(s, P))

\* line 57
group_select_list(s, P) ==
    LET column == Lit(Tok.SP, s, Lit(Tok.COMMA, s, column_name(s, P)))
    IN  Lit(Tok.RPAREN, s, column_name(s, Lit(Tok.LPAREN, s, aggregate_func_name(s, column))))

\* a select_list without the group_select_list alternative
select_list_NoGroup(s, P) == aggregate_function(s, P) \cup column_list(s, P)

\* line 53
select_list(s, P) ==
    aggregate_function(s, P) \cup column_list(s, P) \cup group_select_list(s, P)

\* line 50
select_statement(s, P) ==
    LET selected == select_list(s, Lit(Tok.SP, s, Lit(Tok.SELECT, s, P)))
        tabled == table_name(s, Lit(Tok.SP, s, Lit(Tok.FROM, s, Lit(Tok.SP, s, selected))))
        filtered == tabled \cup where_clause(s, Lit(Tok.SP, s, tabled))
        grouped == filtered \cup group_clause(s, Lit(Tok.SP, s, filtered))
        ordered == grouped \cup order_clause(s, Lit(Tok.SP, s, grouped))
    IN  ordered \cup limit_clause(s, Lit(Tok.SP, s, ordered))

\* line 47
start(s, P) == Lit(Tok.SEMI, s, select_statement(s, P))

\* s is a sentence of the grammar
Derives(s) == Len(s) \in start(s, {0})

\* what the candidate texts are made of: for each part of a statement, some
\* texts that the grammar derives there and some that it does not
SLOTS ==
    [ select_lists |->   \* the select lists the candidate texts are made of
        { <<"C","O","U","N","T","(","*",")">>,
          <<"i","d">>,
          <<"i","d",","," ","n","a","m","e">>,
          <<"s","t","a","t","u","s",","," ","A","V","G","(","t","o","t","a","l","_","a",
            "m","o","u","n","t",")">>,
          <<"S","U","M","(","t","o","t","a","l","_","a","m","o","u","n","t",")">>,
          <<"*">>,
          <<"(","S","E","L","E","C","T"," ","i","d"," ","F","R","O","M"," ","o","r","d",
            "e","r","s",")">> },
      tables |->   \* the tables
        { <<"o","r","d","e","r","s">>,
          <<"c","u","s","t","o","m","e","r","s">>,
          <<"p","r","o","d","u","c","t","s">>,
          <<"u","s","e","r","s">>,
          <<"(","S","E","L","E","C","T"," ","i","d"," ","F","R","O","M"," ","o","r","d",
            "e","r","s",")">> },
      wheres |->   \* nothing, or a space and a WHERE clause
        { <<>>,
          <<" ","W","H","E","R","E"," ","s","t","a","t","u","s"," ","="," ","'","c","o",
            "m","p","l","e","t","e","d","'">>,
          <<" ","W","H","E","R","E"," ","o","r","d","e","r","_","d","a","t","e"," ",">",
            "="," ","N","O","W","(",")"," ","-"," ","I","N","T","E","R","V","A","L"," ",
            "3","0"," ","H","O","U","R">>,
          <<" ","W","H","E","R","E"," ","i","d"," ","I","N"," ","(","1",","," ","2",".",
            "5",")"," ","A","N","D"," ","n","a","m","e"," ","!","="," ","N","U","L",
            "L">>,
          <<" ","W","H","E","R","E"," ","n","a","m","e"," ","="," ","'","S","E","L","E",
            "C","T"," ","i","d"," ","F","R","O","M"," ","o","r","d","e","r","s","'">>,
          <<" ","W","H","E","R","E"," ","n","a","m","e"," ","="," ","'","a","'","b",
            "'">>,
          <<" ","W","H","E","R","E"," ","n","a","m","e"," ","="," ","'","a",";","b",
            "'">>,
          <<" ","W","H","E","R","E"," ","i","d"," ","I","N"," ","(","S","E","L","E","C",
            "T"," ","i","d"," ","F","R","O","M"," ","o","r","d","e","r","s",")">> },
      groups |->   \* nothing, or a space and a GROUP BY clause
        { <<>>,
          <<" ","G","R","O","U","P"," ","B","Y"," ","s","t","a","t","u","s">>,
          <<" ","G","R","O","U","P"," ","B","Y"," ","s","t","a","t","u","s",","," ","c",
            "a","t","e","g","o","r","y">> },
      orders |->   \* nothing, or a space and an ORDER BY clause
        { <<>>,
          <<" ","O","R","D","E","R"," ","B","Y"," ","i","d">>,
          <<" ","O","R","D","E","R"," ","B","Y"," ","i","d"," ">>,
          <<" ","O","R","D","E","R"," ","B","Y"," ","i","d"," ","D","E","S","C">> },
      limits |->   \* nothing, or a space and a LIMIT clause
        { <<>>,
          <<" ","L","I","M","I","T"," ","5">>,
          <<" ","L","I","M","I","T"," ","5",";"," ","D","R","O","P"," ","T","A","B","L",
            "E"," ","o","r","d","e","r","s">> },
      endings |->   \* the end of the text
        { <<";">>,
          <<>>,
          <<";",";">>,
          <<";"," ","S","E","L","E","C","T"," ","i","d"," ","F","R","O","M"," ","o","r",
            "d","e","r","s",";">> } ]

\* texts in the shape of a statement, sentences of the grammar or not, and the
\* expected queries of the corpus
Candidates ==
    { Tok.SELECT \o Tok.SP \o l \o Tok.SP \o Tok.FROM \o Tok.SP \o t \o w \o g \o o \o m \o e :
          l \in SLOTS.select_lists, t \in SLOTS.tables, w \in SLOTS.wheres,
          g \in SLOTS.groups, o \in SLOTS.orders, m \in SLOTS.limits,
          e \in SLOTS.endings }
    \cup { TEST_CASES[k].expected_query : k \in DOMAIN TEST_CASES }

GrammarIdle ==
    /\ gr_pc = "idle"
    /\ sentence = <<>>
    /\ derivable = FALSE

\* a text is submitted to the grammar
GrammarInit ==
    /\ gr_pc = "submitted"
    /\ sentence \in Candidates
    /\ derivable = FALSE

\* the text is derived from the start rule, or is found not to be derivable
Parse ==
    /\ gr_pc = "submitted"
    /\ derivable' = Derives(sentence)
    /\ gr_pc' = "parsed"
    /\ UNCHANGED sentence
    /\ UNCHANGED notGrammarVars

GrammarNext == Parse


(***************************************************************************)
(* Specifications: one per operation under study; the variables of the    *)
(* other operations stay idle.                                             *)
(***************************************************************************)
InitCompare == CmpInit /\ NormIdle /\ GenIdle /\ EvalIdle /\ MetricsIdle /\ StreamIdle /\ ServiceIdle /\ GrammarIdle

SpecCompare == InitCompare /\ [][CompareQueries]_vars

InitNormalize == NormInit /\ CmpIdle /\ GenIdle /\ EvalIdle /\ MetricsIdle /\ StreamIdle /\ ServiceIdle /\ GrammarIdle

SpecNormalize == InitNormalize /\ [][Normalize]_vars

InitGenerate == GenInit /\ CmpIdle /\ NormIdle /\ EvalIdle /\ MetricsIdle /\ StreamIdle /\ ServiceIdle /\ GrammarIdle

SpecGenerate == InitGenerate /\ [][GenNext]_vars

InitGlued == GenInit /\ CmpIdle /\ NormIdle /\ EvalIdle /\ MetricsIdle /\ StreamIdle /\ ServiceIdle /\ GrammarIdle

SpecGlued == InitGlued /\ [][GluedNext]_vars

InitEvaluate == EvalInit /\ CmpIdle /\ NormIdle /\ GenIdle /\ MetricsIdle /\ StreamIdle /\ ServiceIdle /\ GrammarIdle

SpecEvaluate == InitEvaluate /\ [][EvalNext]_vars

InitMetrics == MetricsInit /\ CmpIdle /\ NormIdle /\ GenIdle /\ EvalIdle /\ StreamIdle /\ ServiceIdle /\ GrammarIdle

SpecMetrics == InitMetrics /\ [][CalculateMetrics]_vars

InitStream == StreamInit /\ CmpIdle /\ NormIdle /\ GenIdle /\ MetricsIdle /\ ServiceIdle /\ GrammarIdle

SpecStream == InitStream /\ [][StreamNext]_vars

InitDb ==
    /\ DbInit
    /\ CmpIdle /\ NormIdle /\ GenIdle /\ EvalIdle /\ MetricsIdle /\ StreamIdle /\ GrammarIdle

SpecDb == InitDb /\ [][DbNext]_vars

InitQuery ==
    /\ QueryInit /\ GenInit
    /\ CmpIdle /\ NormIdle /\ EvalIdle /\ MetricsIdle /\ StreamIdle /\ GrammarIdle

SpecQuery == InitQuery /\ [][QueryNext]_vars

InitConfig ==
    /\ ConfigInit
    /\ CmpIdle /\ NormIdle /\ GenIdle /\ EvalIdle /\ MetricsIdle /\ StreamIdle /\ GrammarIdle

SpecConfig == InitConfig /\ [][ConfigNext]_vars

InitGrammar ==
    /\ GrammarInit
    /\ CmpIdle /\ NormIdle /\ GenIdle /\ EvalIdle /\ MetricsIdle /\ StreamIdle /\ ServiceIdle

SpecGrammar == InitGrammar /\ [][GrammarNext]_vars


(***************************************************************************)
(* Claims about the comparator                                             *)
(***************************************************************************)

\* the whitespace-separated tokens of the lowercased string, taken before any
\* whitespace is removed
WordsOf(s) == SplitSet(Lower(s))

\* |A \cap B| / |A \cup B| > 0.8, the quotient being 0 when the union is empty
JaccardAbove80(A, B) ==
    /\ A \cup B # {}
    /\ 5 * Cardinality(A \cap B) > 4 * Cardinality(A \cup B)

\* s without its space and quote characters, in lower case: two strings differ
\* only in letter case, spaces and quotes exactly when these forms are equal
Cosmetic(s) == Lower(SelectSeq(s, LAMBDA c : c \notin {" ", "'", "\""}))

UpperCase == { UpperChars[i] : i \in 1..Len(UpperChars) }

\* C1: compare_queries returns true for every pair of non-empty strings whose
\* normalized forms differ and whose Jaccard similarity, over the
\* whitespace-separated tokens of the lowercased inputs, is strictly above 0.8.
C1_JaccardMatch ==
    ( /\ cmp_pc = "done"
      /\ generated # None /\ generated # EmptyStr /\ expected # EmptyStr
      /\ normalize(generated) # normalize(expected)
      /\ JaccardAbove80(WordsOf(generated), WordsOf(expected)) )
    => is_correct = TRUE

\* C2: compare_queries returns false for every pair whose normalized forms
\* differ and whose token-set Jaccard similarity (tokens of the lowercased
\* inputs) is at most 0.8.
C2_JaccardNoMatch ==
    ( /\ cmp_pc = "done"
      /\ generated # None
      /\ normalize(generated) # normalize(expected)
      /\ ~JaccardAbove80(WordsOf(generated), WordsOf(expected)) )
    => is_correct = FALSE

\* C3: compare_queries(g, e) is true whenever g is non-empty and g and e have
\* the same normalized form, in particular when they differ only in letter
\* case, spaces and quotes, when g = e, and for the spec's exact-match example.
C3_SameNormalFormMatches ==
    ( /\ cmp_pc = "done"
      /\ generated # None /\ generated # EmptyStr )
    => /\ Cosmetic(generated) = Cosmetic(expected) => is_correct = TRUE
       /\ normalize(generated) = normalize(expected) => is_correct = TRUE
       /\ generated = expected => is_correct = TRUE
       /\ (generated = ExactGenerated /\ expected = ExactExpected) => is_correct = TRUE

\* C3 witness: a call on two different strings that differ only cosmetically
\* has returned true.
C3_Witness ==
    /\ cmp_pc = "done"
    /\ generated # None /\ generated # EmptyStr
    /\ generated # expected
    /\ Cosmetic(generated) = Cosmetic(expected)
    /\ Lower(generated) # Lower(expected)
    /\ is_correct = TRUE

\* C4: compare_queries returns false whenever generated is None or the empty
\* string, for every expected string.
C4_EmptyGeneratedNeverMatches ==
    (cmp_pc = "done" /\ generated \in {None, EmptyStr}) => is_correct = FALSE

\* C5: the normalized form contains no whitespace character of any kind, no
\* quote character and no upper-case letter.
C5_NormalizedIsClean ==
    norm_pc = "done" =>
        \A i \in 1..Len(normalized) :
            normalized[i] \notin (Whitespace \cup {"'", "\""} \cup UpperCase)

\* C6: normalization is idempotent, normalize(normalize(s)) = normalize(s),
\* for every string s and for None.
C6_NormalizeIdempotent ==
    norm_pc = "done" => renormalized = normalized

\* C6 witness: a string with whitespace or quotes that normalize changed, with a
\* non-empty result that a second normalize left alone.
C6_Witness ==
    /\ norm_pc = "done"
    /\ query # None
    /\ normalized # query
    /\ normalized # EmptyStr
    /\ \E i \in 1..Len(query) : query[i] \in Whitespace \cup {"'", "\""}
    /\ renormalized = normalized

(***************************************************************************)
(* Claims about the generator's reading of the response                    *)
(***************************************************************************)

\* the call returned after the service answered
Answered == gen_pc = "done" /\ api_error = NoError

IsQuery(r) == r.outcome = "return" /\ r.status = "success"

IsClarification(r) == r.outcome = "return" /\ r.status = "needs_clarification"

\* the raw string of an input or text attribute
RawValue(v) == IF v.kind = "list" THEN v.val[1] ELSE v.val

\* the element carries a structured payload with something in it
HasPayload(o) == Truthy(o.input) /\ Strip(RawValue(o.input)) # EmptyStr

\* a returned query carries the text t: verbatim, stripped, or stripped and
\* with the spacing repaired
Carries(q, t) == q \in {t, Strip(t), FixSpacing(Strip(t))}

\* C7: every returned value populates exactly one variant: status success with
\* a non-empty query and no clarification, or status needs_clarification with
\* no query and a clarification message.
C7_ExactlyOneVariant ==
    (gen_pc = "done" /\ gen_result.outcome = "return") =>
        \/ /\ gen_result.status = "success"
           /\ gen_result.query # None /\ gen_result.query # EmptyStr
           /\ gen_result.clarification = None
        \/ /\ gen_result.status = "needs_clarification"
           /\ gen_result.query = None
           /\ gen_result.clarification # None

\* C7 witness: a call has returned a query although the response also held a
\* message that reads as a clarification.
C7_Witness ==
    /\ gen_pc = "done"
    /\ IsQuery(gen_result)
    /\ gen_result.query # None /\ gen_result.clarification = None
    /\ \E i \in 1..Len(response) :
          /\ response[i].content.kind = "list"
          /\ response[i].content.items # <<>>
          /\ response[i].content.items[1] = TextItem(TextClarify)

\* C8: whenever some output element carries a non-empty structured payload, the
\* result is a Query carrying that payload, wherever the element stands and
\* whatever free text the response also holds.
C8_PayloadAlwaysWins ==
    (Answered /\ \E i \in 1..Len(response) : HasPayload(response[i])) =>
        /\ IsQuery(gen_result)
        /\ \E i \in 1..Len(response) :
              /\ HasPayload(response[i])
              /\ Carries(gen_result.query, RawValue(response[i].input))

\* the response is one message without payload whose content is free text: a
\* single text, or a list of text parts
IsFreeText(output) ==
    /\ Len(output) = 1
    /\ ~Truthy(output[1].input)
    /\ \/ output[1].content.kind \in {"str", "obj"}
       \/ /\ output[1].content.kind = "list"
          /\ output[1].content.items # <<>>
          /\ \A j \in 1..Len(output[1].content.items) :
                output[1].content.items[j].kind = "text"

RECURSIVE JoinTexts(_)
JoinTexts(items) ==
    IF items = <<>> THEN EmptyStr ELSE Head(items).text \o JoinTexts(Tail(items))

\* what the free text T of such a response may be taken to be: the text, and
\* for a list of parts its first part or all parts joined
FreeTextReadings(c) ==
    CASE c.kind = "str" -> {c.val}
      [] c.kind = "obj" -> {c.text}
      [] OTHER -> {c.items[1].text, JoinTexts(c.items)}

\* the result the claim gives for free text T
ClassifiedAs(r, T) ==
    IF LooksLikeClarification(T)
    THEN IsClarification(r) /\ r.clarification \in {T, Strip(T)}
    ELSE IsQuery(r) /\ Carries(r.query, T)

\* C9: a response with no payload whose content is free text T yields a
\* Clarification with message T when T contains a clarification phrase and a
\* Query with text T otherwise; text without a phrase is never a Clarification.
C9_FreeTextClassified ==
    (Answered /\ IsFreeText(response)) =>
        LET readings == { T \in FreeTextReadings(response[1].content) : Strip(T) # EmptyStr }
        IN  /\ readings # {} => \E T \in readings : ClassifiedAs(gen_result, T)
            /\ (IsClarification(gen_result) /\ Strip(gen_result.clarification) # EmptyStr) =>
                  LooksLikeClarification(gen_result.clarification)

BlankValue(v) ==
    \/ v.kind = "absent"
    \/ v.kind = "str" /\ Strip(v.val) = EmptyStr
    \/ v.kind = "list" /\ \A j \in 1..Len(v.val) : Strip(v.val[j]) = EmptyStr

BlankContent(c) ==
    \/ c.kind = "absent"
    \/ c.kind = "str" /\ Strip(c.val) = EmptyStr
    \/ c.kind = "obj" /\ Strip(c.text) = EmptyStr
    \/ /\ c.kind = "list"
       /\ \A j \in 1..Len(c.items) :
             Strip(IF c.items[j].kind = "text" THEN c.items[j].text ELSE c.items[j].val)
                 = EmptyStr

\* no output element carries usable content
NoUsableContent(output) ==
    \A i \in 1..Len(output) :
        /\ BlankValue(output[i].input)
        /\ BlankContent(output[i].content)
        /\ BlankValue(output[i].text)

\* C10: when no output element carries usable content (an empty output list, or
\* only absent, empty or whitespace-only payloads and texts), the call returns
\* the fixed generic Clarification; it neither raises nor returns success.
C10_NothingUsableIsGeneric ==
    (Answered /\ NoUsableContent(response)) =>
        gen_result = NeedsClarification(GENERIC_CLARIFICATION)

\* the four glued artifacts
GluedArtifacts == {GLUED_WHERE, GLUED_GROUP_BY, GLUED_ORDER_BY, GLUED_LIMIT}

StartsWith(s, p) == Len(s) >= Len(p) /\ SubSeq(s, 1, Len(p)) = p

\* s read once from the left, one space put after 'FROM orders' wherever a
\* glued artifact starts
RECURSIVE Respaced(_)
Respaced(s) ==
    IF s = EmptyStr THEN EmptyStr
    ELSE IF \E g \in GluedArtifacts : StartsWith(s, g)
         THEN FROM_ORDERS \o <<" ">> \o Respaced(SubSeq(s, Len(FROM_ORDERS) + 1, Len(s)))
         ELSE <<Head(s)>> \o Respaced(Tail(s))

\* the text the query was extracted from: the payload, or the first text part
ExtractedText(o) ==
    Strip(IF Truthy(o.input) THEN RawValue(o.input) ELSE o.content.items[1].text)

\* C11: every returned query, from a payload or from free text, contains none
\* of the four glued artifacts: it is the extracted string with exactly one
\* space inserted after 'orders' at each artifact; repairing it again changes
\* nothing, and an extracted string without artifacts is returned unchanged.
C11_GluedClausesRepaired ==
    (Answered /\ IsQuery(gen_result)) =>
        LET extracted == ExtractedText(response[1])
            q == gen_result.query
        IN  /\ \A g \in GluedArtifacts : ~Contains(q, g)
            /\ q = Respaced(extracted)
            /\ FixSpacing(q) = q
            /\ (\A g \in GluedArtifacts : ~Contains(extracted, g)) => q = extracted

\* C11 witness: a free text with two different glued artifacts came back as a
\* query with both repaired.
C11_Witness ==
    /\ Answered /\ IsQuery(gen_result)
    /\ ~Truthy(response[1].input)
    /\ Contains(ExtractedText(response[1]), GLUED_LIMIT)
    /\ Contains(ExtractedText(response[1]), GLUED_GROUP_BY)
    /\ Len(gen_result.query) = Len(ExtractedText(response[1])) + 2

\* C12: generate sends exactly one request per call and never retries; when
\* the request raises, generate returns neither a Query nor a Clarification
\* but raises with the original exception's message.
C12_OneCallFailurePropagates ==
    /\ api_calls <= 1
    /\ gen_pc \in {"waiting", "done"} => api_calls = 1
    /\ (gen_pc = "done" /\ api_error # NoError) =>
          /\ gen_result = Raised(api_error)
          /\ api_calls = 1

\* C12 witness: a call whose single request raised has ended by raising.
C12_Witness ==
    /\ gen_pc = "done"
    /\ api_calls = 1
    /\ api_error = "Rate limit exceeded"
    /\ gen_result.outcome = "raise"

(***************************************************************************)
(* Claims about the evaluation run and its metrics                         *)
(***************************************************************************)

\* the run got past the client check and has returned its report
Completed == ev_pc = "returned" /\ client_present

\* the results recorded for case k, in the order of the list
EntriesOf(k) == SelectSeq(results, LAMBDA r : r.test_case = k)

\* C13: once the client check has passed no exception raised while a case is
\* processed, by the generation call, the comparison or the progress callback,
\* leaves run_evaluation, and a returned report follows a run through every
\* case of the corpus.
C13_NoCaseAbortsTheRun ==
    client_present =>
        /\ ev_pc # "raised"
        /\ escaped = NoError
        /\ ev_pc = "returned" => Len(outcomes) = Len(TEST_CASES)

\* C14: a completed run's results hold exactly one result per corpus case, in
\* corpus order, whatever the generation call and the progress callback did.
C14_OneResultPerCase ==
    Completed =>
        /\ Len(report.results) = Len(TEST_CASES)
        /\ \A k \in 1..Len(TEST_CASES) : report.results[k].id = TEST_CASES[k].id

\* C15: a case whose generation call raised has one result, with is_correct
\* false, an empty generated_query and the exception's message as its error;
\* every case whose generation call returned has the result that its own
\* answer determines, whatever the other cases did.
C15_GenerationErrorRecorded ==
    \A k \in 1..Len(outcomes) :
        LET entries == EntriesOf(k)
            own == ExtractQuery(Answer(outcomes[k].kind, TEST_CASES[k]))
        IN  /\ entries # <<>>
            /\ entries[1].id = TEST_CASES[k].id
            /\ IF outcomes[k].kind = "raises"
               THEN /\ Len(entries) = 1
                    /\ entries[1].is_correct = FALSE
                    /\ entries[1].generated_query = EmptyStr
                    /\ "error" \in DOMAIN entries[1]
                    /\ entries[1].error = outcomes[k].error
               ELSE IF CompareRaises(own)
               THEN "error" \in DOMAIN entries[1]
               ELSE /\ "error" \notin DOMAIN entries[1]
                    /\ entries[1].generated_query = own
                    /\ entries[1].is_correct = IsCorrect[k][own]
                    /\ entries[1].execution_time = outcomes[k].latency

\* C15 witness: the second case's generation call raised, the four others
\* echoed their expected query and passed.
C15_Witness ==
    /\ Completed
    /\ Len(outcomes) = Len(TEST_CASES)
    /\ outcomes[2].kind = "raises"
    /\ outcomes[2].error = "Rate limit exceeded"
    /\ \A k \in DOMAIN outcomes \ {2} : outcomes[k].kind = "echo"
    /\ report.results[2].error = "Rate limit exceeded"
    /\ report.metrics.passed_tests = Len(TEST_CASES) - 1

\* C16: without a client run_evaluation calls the generator for no case and
\* returns no results, an explanatory error and metrics whose counts,
\* accuracy and average_execution_time are all 0.
C16_NotConfiguredIsAllZero ==
    (ev_pc = "returned" /\ ~client_present) =>
        /\ outcomes = NoOutcome
        /\ report.results = <<>>
        /\ "error" \in DOMAIN report
        /\ report.metrics.total_tests = 0
        /\ report.metrics.passed_tests = 0
        /\ SameNumber(report.metrics.accuracy, Zero)
        /\ SameNumber(report.metrics.average_execution_time, Zero)

\* C17: the category breakdown of every report, of a completed run and of the
\* run without a client alike, has exactly the keys basic, aggregation,
\* filtering and complex, and a category without results has total 0, passed 0
\* and accuracy 0.
C17_FourCategoriesAlways ==
    ev_pc = "returned" =>
        LET breakdown == report.metrics.category_breakdown
        IN  /\ DOMAIN breakdown = {"basic", "aggregation", "filtering", "complex"}
            /\ \A c \in DOMAIN breakdown :
                  (~\E n \in DOMAIN report.results :
                        TEST_CASES[report.results[n].test_case].category = c) =>
                      /\ breakdown[c].total = 0
                      /\ breakdown[c].passed = 0
                      /\ SameNumber(breakdown[c].accuracy, Zero)

RECURSIVE SumOfLatencies(_)
SumOfLatencies(rs) ==
    IF rs = <<>> THEN 0 ELSE Head(rs).execution_time + SumOfLatencies(Tail(rs))

\* C19: the average_execution_time of a completed run's report is the sum of
\* the execution_time fields of its results divided by their number, whatever
\* the generation call, the comparison and the callback did.
C19_AverageFromResults ==
    (Completed /\ report.results # <<>>) =>
        SameNumber(report.metrics.average_execution_time,
                   Quotient(SumOfLatencies(report.results), Len(report.results)))

\* C20: every result of a case that the collaborator answered with a
\* Clarification has an empty generated_query and is_correct false; a run of
\* Clarifications only reports passed_tests = 0 and only empty
\* generated_query fields.
C20_ClarificationNeverPasses ==
    /\ \A k \in 1..Len(outcomes) :
          outcomes[k].kind = "clarification" =>
              /\ EntriesOf(k) # <<>>
              /\ \A n \in DOMAIN results :
                    results[n].test_case = k =>
                        /\ results[n].generated_query = EmptyStr
                        /\ results[n].is_correct = FALSE
    /\ (Completed /\ \A k \in DOMAIN outcomes : outcomes[k].kind = "clarification") =>
          /\ report.metrics.passed_tests = 0
          /\ \A n \in DOMAIN report.results :
                report.results[n].generated_query = EmptyStr

\* C20 witness: a completed run in which every case was answered with a
\* Clarification.
C20_Witness ==
    /\ Completed
    /\ Len(outcomes) = Len(TEST_CASES)
    /\ \A k \in DOMAIN outcomes : outcomes[k].kind = "clarification"
    /\ Len(report.results) = Len(TEST_CASES)
    /\ report.metrics.passed_tests = 0

\* the keys of a result dict (lines 92-100 and 113-122)
ResultKeys ==
    {"id", "test_case", "generated_query", "expected_query", "is_correct",
     "execution_time", "timestamp", "error"}

\* C21: the result recorded for a case that the collaborator answered with a
\* Clarification keeps the Clarification message in a field of its own, apart
\* from the query, verdict, latency and error fields.
C21_ClarificationMessageKept ==
    \A k \in 1..Len(outcomes) :
        outcomes[k].kind = "clarification" =>
            LET entry == EntriesOf(k)[1]
                message == Answer("clarification", TEST_CASES[k]).value.clarification
            IN  \E key \in DOMAIN entry \ ResultKeys : entry[key] = message

Invocations == SelectSeq(timeline, LAMBDA e : e.event = "callback")

\* the position in the timeline of the generation call of case k, or 0
GeneratedAt(k) ==
    IF \E p \in DOMAIN timeline : timeline[p] = GenerateEvent(k)
    THEN CHOOSE p \in DOMAIN timeline : timeline[p] = GenerateEvent(k)
    ELSE 0

\* C23: a supplied callback is invoked exactly once per corpus case, after the
\* case's result was appended and before the next case's generation call, with
\* the indices 1, 2, ... up to the corpus length, the corpus length as total,
\* the case's description, a pass label exactly when the result is correct,
\* and the result just appended; without a callback nothing is invoked.
C23_OneCallbackPerCase ==
    /\ progress_callback = NoCallback => Invocations = <<>>
    /\ \A n \in DOMAIN Invocations :
          LET call == Invocations[n]
          IN  /\ call.current = n
              /\ call.total = Len(TEST_CASES)
              /\ call.description = TEST_CASES[n].description
              /\ results[call.result].test_case = n
              /\ (call.status = PASS) <=> results[call.result].is_correct
    /\ \A p \in DOMAIN timeline :
          timeline[p].event = "callback" =>
              /\ GeneratedAt(timeline[p].current) \in 1..(p - 1)
              /\ \A q \in 1..(p - 1) :
                    timeline[q].event = "generate" => timeline[q].case <= timeline[p].current
    /\ (Completed /\ progress_callback # NoCallback) =>
          Len(Invocations) = Len(TEST_CASES)

\* the position in the timeline of the first event e, or 0
PositionOf(e) ==
    IF \E p \in DOMAIN timeline : timeline[p] = e
    THEN CHOOSE p \in DOMAIN timeline :
             timeline[p] = e /\ \A q \in 1..(p - 1) : timeline[q] # e
    ELSE 0

\* the emitted events, in order
Emitted == SelectSeq(timeline, LAMBDA e : e.event = "emit")

\* C24: the stream emits the progress event of case i after case i finished
\* and before the generation call of case i+1 starts; the progress events come
\* in case order, after the start event and before the one complete event.
C24_ProgressEmittedIncrementally ==
    /\ \A k \in 2..Len(TEST_CASES) :
          PositionOf(GenerateEvent(k)) # 0 =>
              /\ PositionOf(EmitEvent("progress", k - 1)) # 0
              /\ PositionOf(EmitEvent("progress", k - 1)) < PositionOf(GenerateEvent(k))
    /\ \A k \in 1..Len(TEST_CASES) :
          PositionOf(EmitEvent("progress", k)) # 0 =>
              PositionOf(GenerateEvent(k)) \in 1..(PositionOf(EmitEvent("progress", k)) - 1)
    /\ \A n \in DOMAIN Emitted :
          /\ (Emitted[n].type = "start") <=> (n = 1)
          /\ Emitted[n].type = "progress" => Emitted[n].current = n - 1
          /\ Emitted[n].type = "complete" => n = Len(Emitted)

(***************************************************************************)
(* Claims about the database client and the endpoints                      *)
(***************************************************************************)

\* C30: after any sequence of connect, reconnect, execute_query and
\* test_connection calls, with connection attempts that may fail, the handle
\* is None or an open connection; no query is issued on a closed connection;
\* test_connection_with_config leaves the handle as it was.
C30_HandleIsNoneOrOpen ==
    /\ db.client = NoHandle \/ db.connections[db.client].open
    /\ \A n \in DOMAIN db.queries : db.queries[n].was_open

\* C25: generation executes nothing; the query endpoint executes the
\* generated text at most once, only when the result's status is success and
\* its query is not empty, and never for a Clarification.
C25_ExecutesOnlyQueries ==
    /\ svc_pc = "generate" => db.queries = <<>>
    /\ Len(db.queries) <= 1
    /\ db.queries # <<>> =>
          /\ gen_result.outcome = "return"
          /\ gen_result.status = "success"
          /\ gen_result.query \notin {None, EmptyStr}
          /\ gen_result.clarification = None
          /\ db.queries[1].text = gen_result.query
    /\ /\ svc_pc = "replied"
       /\ gen_result.outcome = "return"
       /\ gen_result.status = "needs_clarification"
       => /\ db.queries = <<>>
          /\ reply.status = "needs_clarification"

C25_Witness ==
    /\ svc_pc = "replied"
    /\ reply.status = "success"
    /\ Len(db.queries) = 1
    /\ db.queries[1].text = gen_result.query

\* C29: a configuration update is all-or-nothing.  A reply of success means
\* the new values are in effect in Config, in the database client and in the
\* query generator; an error reply means Config, the configuration file and
\* both collaborators are as they were when the request arrived; a request
\* with valid clickhouse and openai sections is answered with success.
NewValuesInEffect ==
    /\ config = update_config(before.config, before.config_file, request, TRUE).config
    /\ qg_api_key = config.OPENAI_API_KEY
    /\ db.client # NoHandle =>
          /\ db.connections[db.client].host = config.CLICKHOUSE_HOST
          /\ db.connections[db.client].port = config.CLICKHOUSE_PORT

NothingChanged ==
    /\ config = before.config
    /\ config_file = before.config_file
    /\ qg_api_key = before.qg_api_key
    /\ db = before.db

ValidSections ==
    /\ request.clickhouse = FULL_CLICKHOUSE
    /\ request.openai = Section([ api_key |-> "sk-new" ])

C29_UpdateIsAllOrNothing ==
    svc_pc = "replied" =>
        /\ reply.status = "success" => NewValuesInEffect
        /\ reply.status = "500" => NothingChanged
        /\ ValidSections => reply.status = "success"

(***************************************************************************)
(* Claims about the grammar                                                *)
(***************************************************************************)

\* the character at position i of s is outside every string literal
OutsideLiteral(s, i) ==
    /\ s[i] # "'"
    /\ Cardinality({ j \in 1..(i - 1) : s[j] = "'" }) % 2 = 0

\* where the word w occurs in s outside the string literals
Occurrences(w, s) ==
    { i \in 1..(Len(s) - Len(w) + 1) : /\ SubSeq(s, i, i + Len(w) - 1) = w
                                       /\ OutsideLiteral(s, i) }

\* the word that starts at position i of s and ends before a space or a ';'
WordAt(s, i) ==
    LET stops == { j \in i..Len(s) : s[j] \in {" ", ";"} }
        end == IF stops = {} THEN Len(s) + 1
               ELSE CHOOSE j \in stops : \A other \in stops : j <= other
    IN  SubSeq(s, i, end - 1)

CLOSED_TABLES ==
    { <<"o","r","d","e","r","s">>,
      <<"c","u","s","t","o","m","e","r","s">>,
      <<"p","r","o","d","u","c","t","s">> }

OneSelectStatement(s) ==
    /\ StartsWith(s, Tok.SELECT)
    /\ Cardinality(Occurrences(Tok.SELECT, s)) = 1
    /\ Cardinality(Occurrences(Tok.FROM, s)) = 1
    /\ { i \in 1..Len(s) : s[i] = ";" } = { Len(s) }
    /\ \A i \in Occurrences(Tok.FROM, s) : WordAt(s, i + Len(Tok.FROM) + 1) \in CLOSED_TABLES
    /\ Cardinality({ i \in 1..Len(s) : s[i] = "'" }) % 2 = 0
    /\ \A i \in 1..Len(s) : s[i] \notin LITERAL_CHARS \cup {"'"} => OutsideLiteral(s, i)

\* C26: a text derivable from the start rule is one SELECT statement: it
\* begins with SELECT, has the keywords SELECT and FROM once each, has one
\* ';' which is its last character, names one of the three tables, and its
\* string literals hold no quote and no semicolon.
C26_DerivableIsOneSelect ==
    gr_pc = "parsed" /\ derivable => OneSelectStatement(sentence)

C26_Witness ==
    /\ gr_pc = "parsed"
    /\ derivable
    /\ Occurrences(Tok.WHERE, sentence) # {}
    /\ Contains(sentence, <<"'">> \o Tok.SELECT)

ORDER_BY_ID ==
    <<"S","E","L","E","C","T"," ","i","d"," ","F","R","O","M"," ","o","r","d",
      "e","r","s"," ","O","R","D","E","R"," ","B","Y"," ","i","d",";">>

ORDER_BY_ID_LIMIT ==
    <<"S","E","L","E","C","T"," ","i","d"," ","F","R","O","M"," ","o","r","d",
      "e","r","s"," ","O","R","D","E","R"," ","B","Y"," ","i","d"," ","L","I",
      "M","I","T"," ","5",";">>

\* C27: the direction of ORDER BY is optional: a statement whose ORDER BY
\* names a column that is directly followed by ';', or by one space and a
\* LIMIT clause, is a sentence of the grammar.
C27_DirectionIsOptional ==
    gr_pc = "parsed" /\ sentence \in { ORDER_BY_ID, ORDER_BY_ID_LIMIT } => derivable

\* C28: every expected_query of the corpus is a sentence of the grammar; the
\* ids of the corpus are pairwise distinct and its categories are among basic,
\* aggregation, filtering and complex.
C28_CorpusIsGrammatical ==
    /\ \A k \in DOMAIN TEST_CASES :
          gr_pc = "parsed" /\ sentence = TEST_CASES[k].expected_query => derivable
    /\ \A j, k \in DOMAIN TEST_CASES : TEST_CASES[j].id = TEST_CASES[k].id => j = k
    /\ \A k \in DOMAIN TEST_CASES :
          TEST_CASES[k].category \in { "basic", "aggregation", "filtering", "complex" }

C28_Witness ==
    /\ gr_pc = "parsed"
    /\ derivable
    /\ sentence = TEST_CASES[5].expected_query

====
